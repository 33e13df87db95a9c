----------------------------- MODULE Sync_proofs -----------------------------
(***************************************************************************)
(* Proofs about the synchronisation primitives: first what the steps of    *)
(* Waiters do, which AsyncMutex and Semaphore share; then AsyncMutex, for  *)
(* any set of tasks; then Semaphore, for any finite set of tasks and any   *)
(* initial and maximal permit count.  All of it is for any number of CPUs  *)
(* and any capacity of the waiter queue.                                   *)
(***************************************************************************)
EXTENDS AsyncMutex, Semaphore, TLAPS, FiniteSetTheorems

-----------------------------------------------------------------------------
(* Waiters.  `points` is any set of program points that holds the shared     *)
(* ones.                                                                     *)

\* Moving t's program counter to a point keeps the types.
LEMMA GotoType ==
  ASSUME NEW points, WTypeOK(points), NEW t \in Tasks, NEW s \in points, Goto(t, s),
         UNCHANGED <<schedVars, waiters, registered>>
  PROVE  WTypeOK(points)'
BY DEF WTypeOK, Goto, schedVars

\* The start of a poll, and a yield, keep the types.
LEMMA ScheduleType ==
  ASSUME NEW points, WTypeOK(points), "fast" \in points, NEW t \in Tasks, Poll(t) \/ Yield(t)
  PROVE  WTypeOK(points)'
<1>1. CASE Poll(t)
  <2>1. pc' \in [Tasks -> points]
    BY <1>1 DEF Poll, Goto, WTypeOK
  <2> QED  BY <1>1, <2>1 DEF Poll, WTypeOK
<1>2. CASE Yield(t)
  BY <1>2 DEF Yield, WTypeOK
<1> QED  BY <1>1, <1>2

\* A new future, and Poll::Pending, keep the types.
LEMMA FutureType ==
  ASSUME NEW points, WTypeOK(points), {"fast", "wait"} \subseteq points, NEW t \in Tasks,
         NewFuture(t) \/ Suspend(t)
  PROVE  WTypeOK(points)'
<1>1. pc' \in [Tasks -> points]
  BY DEF NewFuture, Suspend, Goto, WTypeOK
<1>2. CASE NewFuture(t)
  BY <1>1, <1>2 DEF NewFuture, WTypeOK, schedVars
<1>3. CASE Suspend(t)
  BY <1>1, <1>3 DEF Suspend, WTypeOK
<1> QED  BY <1>2, <1>3

\* A registration never makes the waiter queue longer than MAX_WAITERS.
LEMMA RegisterType ==
  ASSUME NEW points, WTypeOK(points), "recheck" \in points, NEW t \in Tasks, Register(t)
  PROVE  WTypeOK(points)'
<1>1. waiters' \in Seq(Tasks) /\ Len(waiters') <= MaxWaiters
  <2>1. CASE ~registered[t] /\ Len(waiters) < MaxWaiters
    BY <2>1, WaitersAssumption DEF Register, WTypeOK
  <2>2. CASE ~(~registered[t] /\ Len(waiters) < MaxWaiters)
    BY <2>2 DEF Register, WTypeOK
  <2> QED  BY <2>1, <2>2
<1>2. pc' \in [Tasks -> points] /\ registered' \in [Tasks -> BOOLEAN]
  BY DEF Register, Goto, WTypeOK
<1> QED  BY <1>1, <1>2 DEF Register, WTypeOK, schedVars

\* Popping a waiter and waking it keeps the types.
LEMMA WakeNextType ==
  ASSUME NEW points, WTypeOK(points), "idle" \in points, NEW t \in Tasks, WakeNext(t)
  PROVE  WTypeOK(points)'
<1>1. pc' \in [Tasks -> points]
  BY DEF WakeNext, Goto, WTypeOK
<1>2. CASE waiters # <<>>
  <2>1. Head(waiters) \in Tasks /\ Tail(waiters) \in Seq(Tasks) /\ Len(Tail(waiters)) <= MaxWaiters
    BY <1>2, WaitersAssumption DEF WTypeOK
  <2>2. waiters' = Tail(waiters) /\ ready' = ready \cup {Head(waiters)}
    BY <1>2 DEF WakeNext
  <2> QED  BY <1>1, <2>1, <2>2 DEF WakeNext, WTypeOK
<1>3. CASE waiters = <<>>
  BY <1>1, <1>3 DEF WakeNext, WTypeOK
<1> QED  BY <1>2, <1>3

\* The initial state has its types.
LEMMA WInitType ==
  ASSUME NEW points, "idle" \in points, WInit
  PROVE  WTypeOK(points)
<1>1. waiters \in Seq(Tasks) /\ Len(waiters) <= MaxWaiters
  BY WaitersAssumption DEF WInit
<1>2. registered \in [Tasks -> BOOLEAN] /\ pc \in [Tasks -> points]
  BY DEF WInit
<1> QED  BY <1>1, <1>2 DEF WInit, WTypeOK

-----------------------------------------------------------------------------
(* The waiter queue as a set.                                                *)

\* Pushing the waker of a task that is not queued adds it once.
LEMMA PushWaiter ==
  ASSUME NEW t \in Tasks, waiters \in Seq(Tasks), waiters' = Append(waiters, t),
         NoDuplicateWaiter, ~InWaiters(t)
  PROVE  /\ NoDuplicateWaiter'
         /\ \A u : InWaiters(u)' <=> InWaiters(u) \/ u = t
<1>1. /\ Len(waiters) \in Nat
      /\ Len(waiters') = Len(waiters) + 1
      /\ \A i \in 1..Len(waiters) : waiters'[i] = waiters[i]
      /\ waiters'[Len(waiters) + 1] = t
  OBVIOUS
<1>2. \A i \in 1..Len(waiters') : i \in 1..Len(waiters) \/ i = Len(waiters) + 1
  BY <1>1
<1>3. NoDuplicateWaiter'
  BY <1>1, <1>2 DEF NoDuplicateWaiter, InWaiters
<1>4. \A u : InWaiters(u)' => InWaiters(u) \/ u = t
  BY <1>1, <1>2 DEF InWaiters
<1>5. \A u : InWaiters(u) \/ u = t => InWaiters(u)'
  BY <1>1 DEF InWaiters
<1> QED  BY <1>3, <1>4, <1>5

\* Popping takes the head's task out of the queue.
LEMMA PopWaiter ==
  ASSUME waiters \in Seq(Tasks), waiters # <<>>, waiters' = Tail(waiters), NoDuplicateWaiter
  PROVE  /\ NoDuplicateWaiter'
         /\ Head(waiters) \in Tasks
         /\ InWaiters(Head(waiters))
         /\ \A u : InWaiters(u)' => InWaiters(u) /\ u # Head(waiters)
<1>1. /\ Len(waiters) \in Nat
      /\ Len(waiters) >= 1
      /\ Head(waiters) = waiters[1]
      /\ Head(waiters) \in Tasks
      /\ Len(waiters') = Len(waiters) - 1
      /\ \A i \in 1..Len(waiters') : waiters'[i] = waiters[i + 1]
  OBVIOUS
<1>2. \A i \in 1..Len(waiters') : i \in Nat /\ i + 1 \in 1..Len(waiters) /\ i + 1 # 1
  BY <1>1
<1>3. NoDuplicateWaiter'
  <2> SUFFICES ASSUME NEW i \in 1..Len(waiters'), NEW j \in 1..Len(waiters'),
                      waiters'[i] = waiters'[j]
               PROVE  i = j
    BY DEF NoDuplicateWaiter
  <2>1. i + 1 = j + 1
    BY <1>1, <1>2 DEF NoDuplicateWaiter
  <2> QED  BY <1>2, <2>1
<1>4. InWaiters(Head(waiters))
  BY <1>1 DEF InWaiters
<1>5. ASSUME NEW u, InWaiters(u)'
      PROVE  InWaiters(u) /\ u # Head(waiters)
  <2>1. PICK i \in 1..Len(waiters') : waiters'[i] = u
    BY <1>5 DEF InWaiters
  <2>2. i + 1 \in 1..Len(waiters) /\ i + 1 # 1 /\ waiters[i + 1] = u
    BY <1>1, <1>2, <2>1
  <2>3. 1 \in 1..Len(waiters)
    BY <1>1
  <2> QED  BY <1>1, <2>2, <2>3 DEF InWaiters, NoDuplicateWaiter
<1> QED  BY <1>1, <1>3, <1>4, <1>5

-----------------------------------------------------------------------------
(* AsyncMutex.                                                               *)

\* Every operation of the mutex and of its scheduler keeps the types; the
\* waiter queue never exceeds MAX_WAITERS because push is refused when full.
LEMMA MNextTypeOK == MTypeOK /\ [MNext]_mvars => MTypeOK'
<1> SUFFICES ASSUME MTypeOK, [MNext]_mvars
             PROVE  MTypeOK'
  OBVIOUS
<1>1. WTypeOK(MPoints) /\ locked \in BOOLEAN
  BY DEF MTypeOK
<1>2. {"idle", "fast", "register", "recheck", "wait", "hold", "wake"} \subseteq MPoints
  BY DEF MPoints
<1>3. ASSUME NEW t \in Tasks, NEW s \in {"idle", "register"}, Acquire(t) \/ Refused(t, s),
             UNCHANGED <<schedVars, waiters, registered>>
      PROVE  MTypeOK'
  <2>1. locked' \in BOOLEAN
    BY <1>1, <1>3 DEF Acquire, Refused
  <2>2. WTypeOK(MPoints)'
    BY <1>1, <1>2, <1>3, GotoType DEF Acquire, Refused
  <2> QED  BY <2>1, <2>2 DEF MTypeOK
<1>4. ASSUME NEW t \in Tasks, UNCHANGED locked,
             Poll(t) \/ Yield(t) \/ NewFuture(t) \/ Register(t) \/ Suspend(t) \/ WakeNext(t)
      PROVE  MTypeOK'
  <2>1. WTypeOK(MPoints)'
    BY <1>1, <1>2, <1>4, ScheduleType, FutureType, RegisterType, WakeNextType
  <2> QED  BY <1>1, <1>4, <2>1 DEF MTypeOK
<1>5. ASSUME NEW t \in Tasks, TryLock(t) \/ LockFast(t) \/ LockRecheckFree(t)
      PROVE  MTypeOK'
  BY <1>3, <1>5 DEF TryLock, LockFast, LockRecheckFree
<1>6. ASSUME NEW t \in Tasks, Unlock(t)
      PROVE  MTypeOK'
  BY <1>1, <1>2, <1>6, GotoType DEF Unlock, MTypeOK
<1>7. ASSUME NEW t \in Tasks, LockPending(t)
      PROVE  MTypeOK'
  BY <1>4, <1>7 DEF LockPending
<1>8. CASE UNCHANGED mvars
  BY <1>1, <1>8 DEF mvars, waitVars, MTypeOK, WTypeOK
<1> QED
  BY <1>4, <1>5, <1>6, <1>7, <1>8 DEF MNext, MStep, InCall

\* Every reachable state of the mutex and of its tasks has its types.
THEOREM MutexTypeCorrect == MSpec => []MTypeOK
<1>1. MInit => MTypeOK
  BY WInitType DEF MInit, MTypeOK, MPoints
<1> QED  BY <1>1, MNextTypeOK, PTL DEF MSpec

\* No step of lock(), try_lock() or of a guard's drop makes a second guard.
LEMMA NextMutualExclusion ==
  MTypeOK /\ MutualExclusion /\ [MNext]_mvars => MutualExclusion'
<1> SUFFICES ASSUME MTypeOK, MutualExclusion, [MNext]_mvars
             PROVE  MutualExclusion'
  OBVIOUS
<1> USE DEF MTypeOK, WTypeOK, MutualExclusion, Holds, At, Goto
<1>1. ASSUME NEW t \in Tasks, Acquire(t)
      PROVE  MutualExclusion'
  BY <1>1 DEF Acquire
<1>2. ASSUME NEW t \in Tasks, NEW s \in MPoints \ {"hold"}, Goto(t, s),
             pc[t] # "hold", UNCHANGED locked
      PROVE  MutualExclusion'
  BY <1>2 DEF MPoints
<1>3. ASSUME NEW t \in Tasks, Unlock(t)
      PROVE  MutualExclusion'
  BY <1>3 DEF Unlock
<1>4. ASSUME NEW t \in Tasks, Poll(t), UNCHANGED locked
      PROVE  MutualExclusion'
  BY <1>4 DEF Poll
<1>5. ASSUME UNCHANGED <<pc, locked>>
      PROVE  MutualExclusion'
  BY <1>5
<1>6. ASSUME NEW t \in Tasks, Refused(t, "idle"), pc[t] = "idle"
      PROVE  MutualExclusion'
  BY <1>2, <1>6 DEF Refused, MPoints
<1>7. ASSUME NEW t \in Tasks, MStep(t)
      PROVE  MutualExclusion'
  <2>1. CASE Yield(t) /\ UNCHANGED locked
    BY <1>5, <2>1 DEF Yield
  <2>2. CASE NewFuture(t) /\ UNCHANGED locked
    BY <1>2, <2>2 DEF NewFuture, MPoints
  <2>3. CASE TryLock(t)
    BY <1>1, <1>6, <2>3 DEF TryLock
  <2>4. CASE LockFast(t)
    BY <1>1, <1>2, <2>4 DEF LockFast, Refused, MPoints
  <2>5. CASE Register(t) /\ UNCHANGED locked
    BY <1>2, <2>5 DEF Register, MPoints
  <2>6. CASE LockRecheckFree(t)
    BY <1>1, <2>6 DEF LockRecheckFree
  <2>7. CASE LockPending(t)
    BY <1>2, <2>7 DEF LockPending, Suspend, MPoints
  <2>8. CASE WakeNext(t) /\ UNCHANGED locked
    BY <1>2, <2>8 DEF WakeNext, MPoints
  <2> QED
    BY <1>3, <1>4, <1>7, <2>1, <2>2, <2>3, <2>4, <2>5, <2>6, <2>7, <2>8
       DEF MStep, InCall
<1> QED
  BY <1>5, <1>7 DEF MNext, mvars, waitVars

\* Two guards of one AsyncMutex never exist at the same time, whatever the
\* number of CPUs and tasks, and `locked` is set exactly while one exists.
THEOREM MutexIsExclusive == MSpec => []MutualExclusion
<1>1. MInit => MutualExclusion
  BY DEF MInit, WInit, MutualExclusion, Holds
<1> QED
  BY <1>1, NextMutualExclusion, MutexTypeCorrect, PTL DEF MSpec

-----------------------------------------------------------------------------
(* One CPU: what the waiter queue holds.                                     *)

\* One task is polled at a time and polls are not interleaved: a task that is
\* not being polled is outside the mutex's code or pending in lock(); the slow
\* path runs only while the mutex is held; a queued waiter is not ready.
MOnePoll ==
  /\ \A t, u \in running : t = u
  /\ IsFiniteSet(running)
  /\ running \cap ready = {}
  /\ \A t \in Tasks \ running : pc[t] \in {"idle", "hold", "wait"}
  /\ \A t \in running : pc[t] # "wait"
  /\ \A t \in Tasks : pc[t] \in {"register", "recheck"} => locked
  /\ NoDuplicateWaiter
  /\ \A t \in Tasks : InWaiters(t) => pc[t] \in {"recheck", "wait"} /\ t \notin ready

MOneCpuInv == cpus = 1 => MOnePoll /\ MNoStall

\* A step of the polled task that moves only its own program counter.
LEMMA MLocalStep ==
  ASSUME MTypeOK, MOnePoll, NEW t \in running, NEW s \in MPoints \ {"wait"}, Goto(t, s),
         pc[t] # "recheck", s \in {"register", "recheck"} => locked',
         UNCHANGED <<schedVars, waiters>>
  PROVE  MOnePoll'
<1>1. t \in Tasks /\ pc' \in [Tasks -> MPoints] /\ pc'[t] = s
      /\ \A u \in Tasks : u # t => pc'[u] = pc[u]
  BY DEF MTypeOK, WTypeOK, Goto
<1>2. \A u \in Tasks : u # t => pc[u] \in {"idle", "hold", "wait"}
  BY DEF MOnePoll
<1>3. \A u \in Tasks : pc'[u] \in {"register", "recheck"} => locked'
  BY <1>1, <1>2
<1>4. ~InWaiters(t)
  BY <1>1 DEF MOnePoll
<1>5. \A u : InWaiters(u)' <=> InWaiters(u)
  BY DEF InWaiters
<1>6. NoDuplicateWaiter'
  BY DEF MOnePoll, NoDuplicateWaiter
<1>7. /\ \A u, v \in running' : u = v
      /\ IsFiniteSet(running') /\ running' \cap ready' = {}
      /\ \A u \in Tasks \ running' : pc'[u] \in {"idle", "hold", "wait"}
      /\ \A u \in running' : pc'[u] # "wait"
  BY <1>1 DEF MOnePoll, schedVars
<1>8. \A u \in Tasks : InWaiters(u)' => pc'[u] \in {"recheck", "wait"} /\ u \notin ready'
  BY <1>1, <1>4, <1>5 DEF MOnePoll, schedVars
<1> QED  BY <1>3, <1>6, <1>7, <1>8 DEF MOnePoll

\* On one CPU every step keeps MOnePoll.
LEMMA MNextOnePoll ==
  ASSUME MTypeOK, cpus = 1, MOnePoll, NEW t \in Tasks, MStep(t)
  PROVE  MOnePoll'
<1>1. WTypeOK(MPoints) /\ waiters \in Seq(Tasks) /\ pc \in [Tasks -> MPoints]
      /\ running \subseteq Tasks /\ ready \subseteq Tasks
  BY DEF MTypeOK, WTypeOK
<1>2. CASE TryLock(t) \/ LockFast(t) \/ Unlock(t) \/ (NewFuture(t) /\ UNCHANGED locked)
  <2>1. t \in running /\ pc[t] # "recheck" /\ UNCHANGED <<schedVars, waiters>>
    BY <1>2 DEF TryLock, LockFast, Unlock, NewFuture, At
  <2>2. PICK s \in {"idle", "fast", "register", "hold", "wake"} :
          Goto(t, s) /\ (s = "register" => locked')
    BY <1>2 DEF TryLock, LockFast, Unlock, NewFuture, Acquire, Refused
  <2> QED  BY <2>1, <2>2, MLocalStep DEF MPoints
<1>3. CASE LockRecheckFree(t)
  BY <1>3 DEF LockRecheckFree, Acquire, At, MOnePoll
<1>4. CASE Register(t) /\ UNCHANGED locked
  <2>1. /\ t \in running /\ pc[t] = "register" /\ locked /\ locked'
        /\ pc' = [pc EXCEPT ![t] = "recheck"] /\ UNCHANGED <<cpus, ready, running>>
    BY <1>4 DEF Register, At, Goto, MOnePoll, schedVars
  <2>2. ~InWaiters(t) /\ t \notin ready
    BY <2>1 DEF MOnePoll
  <2>3. /\ NoDuplicateWaiter'
        /\ \A u : InWaiters(u)' => InWaiters(u) \/ u = t
    <3>1. CASE waiters' = Append(waiters, t)
      BY <1>1, <2>2, <3>1, PushWaiter DEF MOnePoll
    <3>2. CASE waiters' = waiters
      BY <3>2 DEF MOnePoll, NoDuplicateWaiter, InWaiters
    <3> QED  BY <1>4, <3>1, <3>2 DEF Register
  <2>4. \A u \in Tasks : InWaiters(u)' => pc'[u] \in {"recheck", "wait"} /\ u \notin ready'
    BY <1>1, <2>1, <2>2, <2>3 DEF MOnePoll
  <2> QED  BY <1>1, <2>1, <2>3, <2>4 DEF MOnePoll
<1>5. CASE LockPending(t)
  <2>1. /\ t \in running /\ pc[t] = "recheck" /\ locked /\ locked' /\ running' = running \ {t}
        /\ pc' = [pc EXCEPT ![t] = "wait"] /\ UNCHANGED <<cpus, ready, waiters>>
    BY <1>5 DEF LockPending, Suspend, At, Goto
  <2>2. running' = {} /\ IsFiniteSet(running')
    BY <2>1, FS_EmptySet DEF MOnePoll
  <2>3. NoDuplicateWaiter' /\ \A u : InWaiters(u)' <=> InWaiters(u)
    BY <2>1 DEF MOnePoll, NoDuplicateWaiter, InWaiters
  <2> QED  BY <1>1, <2>1, <2>2, <2>3 DEF MOnePoll
<1>6. CASE Poll(t) /\ UNCHANGED locked
  <2>1. /\ t \in ready /\ Cardinality(running) < 1 /\ running' = running \cup {t} /\ ready' = ready \ {t}
        /\ pc' = [pc EXCEPT ![t] = IF pc[t] = "wait" THEN "fast" ELSE pc[t]]
        /\ UNCHANGED <<cpus, waiters, locked>>
    BY <1>6 DEF Poll, Goto
  <2>2. running = {}
    <3>1. Cardinality(running) \in Nat
      BY FS_CardinalityType DEF MOnePoll
    <3>2. Cardinality(running) = 0
      BY <2>1, <3>1
    <3> QED  BY <3>2, FS_EmptySet DEF MOnePoll
  <2>3. running' = {t} /\ IsFiniteSet(running')
    <3>1. running' = {t}
      BY <2>1, <2>2
    <3>2. IsFiniteSet({t})
      BY FS_Singleton
    <3> QED  BY <3>1, <3>2
  <2>4. NoDuplicateWaiter' /\ \A u : InWaiters(u)' <=> InWaiters(u)
    BY <2>1 DEF MOnePoll, NoDuplicateWaiter, InWaiters
  <2>5. pc'[t] \in {"idle", "hold", "fast"} /\ \A u \in Tasks : u # t => pc'[u] = pc[u]
    <3>1. pc[t] \in {"idle", "hold", "wait"}
      BY <2>2 DEF MOnePoll
    <3> QED  BY <1>1, <2>1, <3>1
  <2> QED  BY <1>1, <2>1, <2>2, <2>3, <2>4, <2>5 DEF MOnePoll
<1>7. CASE Yield(t) /\ UNCHANGED locked
  <2>1. /\ t \in running /\ pc[t] \in {"idle", "hold"}
        /\ running' = running \ {t} /\ ready' = ready \cup {t}
        /\ UNCHANGED <<cpus, waiters, pc, locked>>
    BY <1>7 DEF Yield, At
  <2>2. running' = {} /\ IsFiniteSet(running')
    BY <2>1, FS_EmptySet DEF MOnePoll
  <2>3. NoDuplicateWaiter' /\ \A u : InWaiters(u)' <=> InWaiters(u)
    BY <2>1 DEF MOnePoll, NoDuplicateWaiter, InWaiters
  <2> QED  BY <1>1, <2>1, <2>2, <2>3 DEF MOnePoll
<1>8. CASE WakeNext(t) /\ UNCHANGED locked
  <2>1. /\ t \in running /\ pc[t] = "wake" /\ pc' = [pc EXCEPT ![t] = "idle"]
        /\ UNCHANGED <<cpus, running, locked>>
    BY <1>8 DEF WakeNext, At, Goto
  <2>2. CASE waiters = <<>>
    BY <1>1, <1>8, <2>1, <2>2, MLocalStep DEF WakeNext, Goto, MPoints, schedVars
  <2>3. CASE waiters # <<>>
    <3>1. waiters' = Tail(waiters) /\ ready' = ready \cup {Head(waiters)}
      BY <1>8, <2>3 DEF WakeNext
    <3>2. /\ NoDuplicateWaiter' /\ Head(waiters) \in Tasks /\ InWaiters(Head(waiters))
          /\ \A u : InWaiters(u)' => InWaiters(u) /\ u # Head(waiters)
      BY <1>1, <2>3, <3>1, PopWaiter DEF MOnePoll
    <3>3. Head(waiters) # t /\ Head(waiters) \notin running
      BY <2>1, <3>2 DEF MOnePoll
    <3>4. ~InWaiters(t)
      BY <2>1 DEF MOnePoll
    <3> QED  BY <1>1, <2>1, <3>1, <3>2, <3>3, <3>4 DEF MOnePoll
  <2> QED  BY <2>2, <2>3
<1> QED
  BY <1>2, <1>3, <1>4, <1>5, <1>6, <1>7, <1>8 DEF MStep, InCall

\* On one CPU every step keeps MNoStall: a free mutex with queued waiters always
\* has a task on the way to it.
LEMMA MNextNoStall ==
  ASSUME MTypeOK, cpus = 1, MOnePoll, MNoStall, NEW t \in Tasks, MStep(t)
  PROVE  MNoStall'
<1> DEFINE Coming(u) == \/ pc[u] = "wake"
                        \/ u \in running /\ pc[u] = "fast"
                        \/ u \in ready /\ pc[u] = "wait"
<1>1. waiters \in Seq(Tasks) /\ pc \in [Tasks -> MPoints]
      /\ running \subseteq Tasks /\ ready \subseteq Tasks
  BY DEF MTypeOK, WTypeOK
<1>2. ASSUME ~locked, waiters # <<>>
      PROVE  \E u \in Tasks : Coming(u)
  BY <1>2 DEF MNoStall
<1>3. ASSUME NEW u \in Tasks, Coming(u)'
      PROVE  MNoStall'
  BY <1>3 DEF MNoStall
<1>4. ASSUME locked' \/ waiters' = <<>>
      PROVE  MNoStall'
  BY <1>4 DEF MNoStall
<1>5. CASE TryLock(t)
  BY <1>4, <1>5 DEF TryLock, Acquire, Refused
<1>6. CASE LockFast(t)
  BY <1>4, <1>6 DEF LockFast, Acquire, Refused
<1>7. CASE LockRecheckFree(t)
  BY <1>4, <1>7 DEF LockRecheckFree, Acquire
<1>8. CASE LockPending(t)
  BY <1>4, <1>8 DEF LockPending
<1>9. CASE Register(t) /\ UNCHANGED locked
  <2>1. locked
    BY <1>9 DEF Register, At, MOnePoll
  <2> QED  BY <1>4, <1>9, <2>1
<1>10. CASE Unlock(t)
  <2>1. Coming(t)'
    BY <1>1, <1>10 DEF Unlock, Goto
  <2> QED  BY <1>3, <2>1
<1>11. CASE NewFuture(t) /\ UNCHANGED locked
  <2>1. Coming(t)'
    BY <1>1, <1>11 DEF NewFuture, At, Goto, schedVars
  <2> QED  BY <1>3, <2>1
<1>12. CASE WakeNext(t) /\ UNCHANGED locked
  <2>1. CASE waiters = <<>>
    BY <1>4, <1>12, <2>1 DEF WakeNext
  <2>2. CASE waiters # <<>>
    <3>0. PICK h \in Tasks : h = Head(waiters)
      BY <1>1, <2>2
    <3>1. /\ waiters' = Tail(waiters) /\ ready' = ready \cup {h} /\ pc' = [pc EXCEPT ![t] = "idle"]
          /\ t \in running /\ pc[t] = "wake"
      BY <1>12, <2>2, <3>0 DEF WakeNext, Goto, At
    <3>2. InWaiters(h)
      BY <1>1, <2>2, <3>0, <3>1, PopWaiter DEF MOnePoll
    <3>3. h # t /\ h \notin running /\ pc[h] = "wait"
      BY <3>1, <3>2 DEF MOnePoll
    <3>4. Coming(h)'
      BY <1>1, <3>1, <3>3
    <3> QED  BY <1>3, <3>4
  <2> QED  BY <2>1, <2>2
<1>13. CASE (Poll(t) \/ Yield(t)) /\ UNCHANGED locked
  <2>1. UNCHANGED <<locked, waiters>>
    BY <1>13 DEF Poll, Yield
  <2>2. CASE locked \/ waiters = <<>>
    BY <1>4, <2>1, <2>2
  <2>3. CASE ~locked /\ waiters # <<>>
    <3>1. PICK u \in Tasks : Coming(u)
      BY <1>2, <2>3
    <3>2. CASE Poll(t)
      BY <1>1, <1>3, <3>1, <3>2 DEF Poll, Goto
    <3>3. CASE Yield(t)
      <4>1. u # t
        BY <3>1, <3>3 DEF Yield, At
      <4>2. Coming(u)'
        BY <3>1, <3>3, <4>1 DEF Yield
      <4> QED  BY <1>3, <4>2
    <3> QED  BY <1>13, <3>2, <3>3
  <2> QED  BY <2>2, <2>3
<1> QED
  BY <1>5, <1>6, <1>7, <1>8, <1>9, <1>10, <1>11, <1>12, <1>13 DEF MStep, InCall

\* MOneCpuInv holds in every reachable state.
THEOREM MutexOneCpuInvariance == MSpec => []MOneCpuInv
<1>1. MInit => MOneCpuInv
  <2> SUFFICES ASSUME MInit
               PROVE  MOnePoll /\ MNoStall
    BY DEF MOneCpuInv
  <2> QED  BY FS_EmptySet DEF MInit, WInit, MOnePoll, MNoStall, NoDuplicateWaiter, InWaiters
<1>2. MTypeOK /\ MOneCpuInv /\ [MNext]_mvars => MOneCpuInv'
  <2> SUFFICES ASSUME MTypeOK, MOneCpuInv, [MNext]_mvars, cpus' = 1
               PROVE  MOnePoll' /\ MNoStall'
    BY DEF MOneCpuInv
  <2>1. CASE UNCHANGED mvars
    BY <2>1 DEF mvars, waitVars, MOneCpuInv, MOnePoll, MNoStall, NoDuplicateWaiter, InWaiters
  <2>2. ASSUME NEW t \in Tasks, MStep(t)
        PROVE  MOnePoll' /\ MNoStall'
    <3>1. cpus' = cpus
      BY <2>2 DEF MStep, InCall, Poll, Yield, NewFuture, TryLock, LockFast, Register, LockRecheckFree,
                  LockPending, Suspend, WakeNext, Unlock, schedVars
    <3> QED  BY <2>2, <3>1, MNextOnePoll, MNextNoStall DEF MOneCpuInv
  <2> QED  BY <2>1, <2>2 DEF MNext
<1> QED  BY <1>1, <1>2, MutexTypeCorrect, PTL DEF MSpec

\* On one CPU the waiter queue holds only wakers of tasks that are pending in
\* lock(), each at most once.
THEOREM MutexWaitersArePending == MSpec => []MWaitersArePending
<1>1. MTypeOK /\ MOneCpuInv => MWaitersArePending
  BY DEF MTypeOK, WTypeOK, MOneCpuInv, MOnePoll, MWaitersArePending, InWaiters
<1> QED  BY <1>1, MutexOneCpuInvariance, MutexTypeCorrect, PTL

\* On one CPU a free mutex with queued waiters always has a task on the way to
\* it: the wake in the guard's drop is never lost.
THEOREM MutexDoesNotStall == MSpec => []MNoStall
<1>1. MOneCpuInv => MNoStall
  BY DEF MOneCpuInv, MNoStall
<1> QED  BY <1>1, MutexOneCpuInvariance, PTL

-----------------------------------------------------------------------------
(* Semaphore.                                                                *)

CasPoints == {"try_cas", "fast_cas", "recheck_cas"}

\* A task between the load and the compare_exchange of try_acquire has seen a
\* permit, one in release() has seen room for one; a task owns a permit only
\* from its grant to the end of its release.
LoopInv ==
  /\ \A t \in Tasks : pc[t] \in CasPoints => seen[t] > 0
  /\ \A t \in Tasks : pc[t] = "release_cas" => seen[t] < MaxPermits
  /\ \A t \in Tasks : owns[t] => pc[t] \in {"hold", "release", "release_cas"}

IInv == TypeOK /\ LoopInv /\ PermitsAccounted

\* The number of owners is a natural number, and changes by one when a task
\* gets or gives back its permit.
LEMMA OwnersCount ==
  ASSUME TypeOK
  PROVE  /\ IsFiniteSet(Owners) /\ Cardinality(Owners) \in Nat
         /\ \A t \in Tasks : ~owns[t] => Cardinality(Owners \cup {t}) = Cardinality(Owners) + 1
         /\ \A t \in Tasks : owns[t] => Cardinality(Owners \ {t}) = Cardinality(Owners) - 1
                                        /\ Cardinality(Owners) >= 1
<1>1. IsFiniteSet(Owners)
  BY SemaphoreAssumption, FS_Subset DEF Owners
<1>2. Cardinality(Owners) \in Nat
  BY <1>1, FS_CardinalityType
<1>3. \A t \in Tasks : ~owns[t] => Cardinality(Owners \cup {t}) = Cardinality(Owners) + 1
  BY <1>1, FS_AddElement DEF Owners
<1>4. ASSUME NEW t \in Tasks, owns[t]
      PROVE  Cardinality(Owners \ {t}) = Cardinality(Owners) - 1 /\ Cardinality(Owners) >= 1
  <2>1. t \in Owners
    BY <1>4 DEF Owners
  <2>2. Cardinality(Owners \ {t}) = Cardinality(Owners) - 1 /\ IsFiniteSet(Owners \ {t})
    BY <1>1, <2>1, FS_RemoveElement
  <2>3. Cardinality(Owners \ {t}) \in Nat
    BY <2>2, FS_CardinalityType
  <2> QED  BY <1>2, <2>2, <2>3
<1> QED  BY <1>1, <1>2, <1>3, <1>4

\* The initial state satisfies the invariant.
LEMMA InitIInv == Init => IInv
<1> SUFFICES ASSUME Init
             PROVE  IInv
  OBVIOUS
<1>1. WTypeOK(Points)
  BY WInitType DEF Init, Points
<1>2. TypeOK
  BY <1>1, SemaphoreAssumption DEF Init, TypeOK
<1>3. LoopInv
  BY DEF Init, WInit, LoopInv, CasPoints
<1>4. Owners = {}
  BY DEF Init, Owners
<1>5. PermitsAccounted
  BY <1>4, FS_EmptySet, SemaphoreAssumption DEF Init, PermitsAccounted
<1> QED  BY <1>2, <1>3, <1>5 DEF IInv

\* A step that leaves permits, ownership and retry loops alone, and does not
\* move a task into the middle of a retry loop or an owner out of its use.
LEMMA QuietStep ==
  ASSUME IInv, UNCHANGED semVars, WTypeOK(Points)', NEW t \in Tasks,
         \A u \in Tasks : u # t => pc'[u] = pc[u],
         pc'[t] = pc[t] \/ (pc'[t] \notin CasPoints /\ pc'[t] # "release_cas"
                            /\ (owns[t] => pc'[t] \in {"hold", "release"}))
  PROVE  IInv'
<1>1. TypeOK'
  BY DEF IInv, TypeOK, semVars
<1>2. LoopInv'
  BY DEF IInv, LoopInv, semVars
<1>3. PermitsAccounted'
  BY DEF IInv, PermitsAccounted, Owners, semVars
<1> QED  BY <1>1, <1>2, <1>3 DEF IInv

\* The steps that do not touch the permit count or a retry loop.
LEMMA OutsideIInv ==
  ASSUME IInv, NEW t \in Tasks, UNCHANGED semVars,
         Poll(t) \/ Yield(t) \/ NewFuture(t) \/ Register(t) \/ WakeNext(t)
  PROVE  IInv'
<1>1. /\ WTypeOK(Points) /\ pc \in [Tasks -> Points]
      /\ {"idle", "fast", "recheck", "wait"} \subseteq Points
      /\ owns[t] => pc[t] \in {"hold", "release", "release_cas"}
  BY DEF IInv, TypeOK, WTypeOK, LoopInv, Points
<1>2. WTypeOK(Points)'
  BY <1>1, ScheduleType, FutureType, RegisterType, WakeNextType
<1>3. CASE Poll(t)
  BY <1>1, <1>2, <1>3, QuietStep DEF Poll, Goto, CasPoints
<1>4. CASE Yield(t)
  BY <1>1, <1>2, <1>4, QuietStep DEF Yield
<1>5. CASE NewFuture(t)
  BY <1>1, <1>2, <1>5, QuietStep DEF NewFuture, At, Goto, CasPoints
<1>6. CASE Register(t)
  BY <1>1, <1>2, <1>6, QuietStep DEF Register, At, Goto, CasPoints
<1>7. CASE WakeNext(t)
  BY <1>1, <1>2, <1>7, QuietStep DEF WakeNext, At, Goto, CasPoints
<1> QED  BY <1>3, <1>4, <1>5, <1>6, <1>7

\* The entry of try_acquire and of release().
LEMMA EnterIInv ==
  ASSUME IInv, NEW t \in Tasks, TryAcquire(t) \/ ReleaseOwned(t) \/ ReleaseUnowned(t)
  PROVE  IInv'
<1>1. /\ WTypeOK(Points) /\ pc \in [Tasks -> Points] /\ {"try", "release"} \subseteq Points
      /\ owns[t] => pc[t] \in {"hold", "release", "release_cas"}
  BY DEF IInv, TypeOK, WTypeOK, LoopInv, Points
<1>2. UNCHANGED <<schedVars, waiters, registered, semVars>>
  BY DEF TryAcquire, ReleaseOwned, ReleaseUnowned
<1>3. CASE TryAcquire(t)
  BY <1>1, <1>2, <1>3, GotoType, QuietStep DEF TryAcquire, At, Goto, CasPoints
<1>4. CASE ReleaseOwned(t) \/ ReleaseUnowned(t)
  BY <1>1, <1>2, <1>4, GotoType, QuietStep DEF ReleaseOwned, ReleaseUnowned, At, Goto, CasPoints
<1> QED  BY <1>3, <1>4

\* The names of the program points of a retry loop.
LEMMA CasPoint ==
  ASSUME NEW site \in Sites
  PROVE  Cas(site) \in CasPoints
BY DEF Sites, Cas, CasPoints

\* try_acquire finds no permit.
LEMMA LoadNoneIInv ==
  ASSUME IInv, NEW t \in Tasks, NEW site \in Sites, LoadNone(t, site)
  PROVE  IInv'
<1>1. /\ WTypeOK(Points) /\ pc \in [Tasks -> Points]
      /\ {"idle", "register", "fast", "wait"} \subseteq Points
      /\ pc[t] \in Sites /\ ~owns[t] /\ UNCHANGED semVars
  BY DEF IInv, TypeOK, WTypeOK, LoopInv, Points, LoadNone, At, Sites
<1>2. PICK s \in {"idle", "register", "wait"} : Goto(t, s)
  BY DEF LoadNone, Suspend
<1>3. WTypeOK(Points)'
  BY <1>1, GotoType, FutureType DEF LoadNone
<1> QED  BY <1>1, <1>2, <1>3, QuietStep DEF Goto, CasPoints

\* The load of a retry loop, and a compare_exchange that fails.
LEMMA RetryIInv ==
  ASSUME IInv, NEW t \in Tasks,
         \/ \E site \in Sites : LoadSome(t, site) \/ AcquireRetry(t, site)
         \/ ReleaseLoad(t) \/ ReleaseRetry(t)
  PROVE  IInv'
<1>1. /\ TypeOK /\ LoopInv /\ WTypeOK(Points) /\ pc \in [Tasks -> Points] /\ seen \in [Tasks -> 0..MaxPermits]
      /\ permits \in 0..MaxPermits /\ MaxPermits \in Nat
  BY SemaphoreAssumption DEF IInv, TypeOK, WTypeOK
<1>2. PICK s \in Points, n \in 0..MaxPermits :
        /\ Goto(t, s) /\ seen' = [seen EXCEPT ![t] = n]
        /\ s \in CasPoints => n > 0
        /\ s = "release_cas" => n < MaxPermits
        /\ owns[t] => s \in {"release", "release_cas"}
  <2>1. CASE \E site \in Sites : LoadSome(t, site)
    <3>1. PICK site \in Sites : LoadSome(t, site)
      BY <2>1
    <3>2. Cas(site) \in CasPoints /\ Cas(site) # "release_cas" /\ Cas(site) \in Points /\ ~owns[t]
      BY <1>1, <3>1, CasPoint DEF LoadSome, At, LoopInv, Sites, CasPoints, Points
    <3> QED  BY <1>1, <3>1, <3>2 DEF LoadSome
  <2>2. CASE \E site \in Sites : AcquireRetry(t, site)
    <3>1. PICK site \in Sites : AcquireRetry(t, site)
      BY <2>2
    <3>2. ~owns[t] /\ site \in Points \ CasPoints /\ site # "release_cas"
      BY <1>1, <3>1, CasPoint DEF AcquireRetry, At, LoopInv, Sites, CasPoints, Points
    <3> site \in Points /\ 0 \in 0..MaxPermits
      BY <1>1, <3>2
    <3> WITNESS site \in Points, 0 \in 0..MaxPermits
    <3> QED  BY <3>1, <3>2 DEF AcquireRetry
  <2>3. CASE ReleaseLoad(t)
    BY <1>1, <2>3 DEF ReleaseLoad, Points, CasPoints
  <2>4. CASE ReleaseRetry(t)
    <3> "release" \in Points \ CasPoints /\ 0 \in 0..MaxPermits
      BY <1>1 DEF Points, CasPoints
    <3> WITNESS "release" \in Points, 0 \in 0..MaxPermits
    <3> QED  BY <2>4 DEF ReleaseRetry
  <2> QED  BY <2>1, <2>2, <2>3, <2>4
<1>3. UNCHANGED <<schedVars, waiters, registered, permits, owns, extra>>
  BY DEF LoadSome, AcquireRetry, ReleaseLoad, ReleaseRetry
<1>4. TypeOK'
  BY <1>1, <1>2, <1>3, GotoType DEF TypeOK
<1>5. LoopInv'
  BY <1>1, <1>2, <1>3 DEF LoopInv, Goto
<1>6. PermitsAccounted'
  BY <1>3 DEF IInv, PermitsAccounted, Owners
<1> QED  BY <1>4, <1>5, <1>6 DEF IInv

\* A granted permit moves from the count to its owner.
LEMMA AcquireIInv ==
  ASSUME IInv, NEW t \in Tasks, NEW site \in Sites, AcquireCas(t, site)
  PROVE  IInv'
<1>1. /\ TypeOK /\ LoopInv /\ WTypeOK(Points) /\ pc \in [Tasks -> Points]
      /\ seen \in [Tasks -> 0..MaxPermits] /\ owns \in [Tasks -> BOOLEAN]
      /\ permits \in 0..MaxPermits /\ MaxPermits \in Nat /\ extra \in Nat /\ Initial \in Nat
      /\ PermitsAccounted
  BY SemaphoreAssumption DEF IInv, TypeOK, WTypeOK
<1>2. /\ permits = seen[t] /\ permits' = permits - 1 /\ owns' = [owns EXCEPT ![t] = TRUE]
      /\ seen' = [seen EXCEPT ![t] = 0] /\ Goto(t, "hold")
      /\ pc[t] \in CasPoints
      /\ UNCHANGED <<schedVars, waiters, registered, extra>>
  BY CasPoint DEF AcquireCas, At
<1>3. permits > 0 /\ ~owns[t]
  BY <1>1, <1>2 DEF LoopInv, CasPoints
<1>4. TypeOK'
  <2>1. WTypeOK(Points)'
    BY <1>1, <1>2, GotoType DEF Points
  <2>2. permits' \in 0..MaxPermits /\ seen' \in [Tasks -> 0..MaxPermits] /\ owns' \in [Tasks -> BOOLEAN]
    BY <1>1, <1>2, <1>3
  <2> QED  BY <1>1, <1>2, <2>1, <2>2 DEF TypeOK
<1>5. LoopInv'
  BY <1>1, <1>2 DEF LoopInv, Goto, CasPoints
<1>6. PermitsAccounted'
  <2>1. Owners' = Owners \cup {t}
    BY <1>1, <1>2 DEF Owners
  <2>2. Cardinality(Owners)' = Cardinality(Owners) + 1 /\ Cardinality(Owners) \in Nat
    BY <1>1, <1>3, <2>1, OwnersCount
  <2> QED  BY <1>1, <1>2, <2>2 DEF PermitsAccounted
<1> QED  BY <1>4, <1>5, <1>6 DEF IInv

\* A released permit goes back to the count, and is extra if it was not owned.
LEMMA ReleaseIInv ==
  ASSUME IInv, NEW t \in Tasks, ReleaseCas(t)
  PROVE  IInv'
<1>1. /\ TypeOK /\ LoopInv /\ WTypeOK(Points) /\ pc \in [Tasks -> Points]
      /\ seen \in [Tasks -> 0..MaxPermits] /\ owns \in [Tasks -> BOOLEAN]
      /\ permits \in 0..MaxPermits /\ MaxPermits \in Nat /\ extra \in Nat /\ Initial \in Nat
      /\ PermitsAccounted
  BY SemaphoreAssumption DEF IInv, TypeOK, WTypeOK
<1>2. /\ permits = seen[t] /\ permits' = permits + 1 /\ owns' = [owns EXCEPT ![t] = FALSE]
      /\ seen' = [seen EXCEPT ![t] = 0] /\ Goto(t, "wake") /\ pc[t] = "release_cas"
      /\ extra' = IF owns[t] THEN extra ELSE extra + 1
      /\ UNCHANGED <<schedVars, waiters, registered>>
  BY DEF ReleaseCas, At
<1>3. permits < MaxPermits
  BY <1>1, <1>2 DEF LoopInv
<1>4. TypeOK'
  <2>1. WTypeOK(Points)'
    BY <1>1, <1>2, GotoType DEF Points
  <2>2. permits' \in 0..MaxPermits /\ seen' \in [Tasks -> 0..MaxPermits] /\ owns' \in [Tasks -> BOOLEAN]
    BY <1>1, <1>2, <1>3
  <2>3. extra' \in Nat
    BY <1>1, <1>2
  <2> QED  BY <2>1, <2>2, <2>3 DEF TypeOK
<1>5. LoopInv'
  BY <1>1, <1>2 DEF LoopInv, Goto, CasPoints
<1>6. PermitsAccounted'
  <2>1. Owners' = Owners \ {t}
    BY <1>1, <1>2 DEF Owners
  <2>2. CASE owns[t]
    <3>1. Cardinality(Owners)' = Cardinality(Owners) - 1 /\ Cardinality(Owners) \in Nat
      BY <1>1, <2>1, <2>2, OwnersCount
    <3> QED  BY <1>1, <1>2, <2>2, <3>1 DEF PermitsAccounted
  <2>3. CASE ~owns[t]
    <3>1. Owners' = Owners /\ Cardinality(Owners) \in Nat
      BY <1>1, <2>1, <2>3, OwnersCount DEF Owners
    <3> QED  BY <1>1, <1>2, <2>3, <3>1 DEF PermitsAccounted
  <2> QED  BY <2>2, <2>3
<1> QED  BY <1>4, <1>5, <1>6 DEF IInv

\* A release at the maximum adds nothing; without extra permits it is never
\* the release of an owner.
LEMMA SaturatedIInv ==
  ASSUME IInv, NEW t \in Tasks, ReleaseSaturated(t)
  PROVE  IInv'
<1>1. /\ TypeOK /\ LoopInv /\ WTypeOK(Points) /\ pc \in [Tasks -> Points]
      /\ owns \in [Tasks -> BOOLEAN] /\ permits \in 0..MaxPermits /\ MaxPermits \in Nat
      /\ extra \in Nat /\ Initial \in Nat /\ Initial <= MaxPermits /\ PermitsAccounted
  BY SemaphoreAssumption DEF IInv, TypeOK, WTypeOK
<1>2. /\ permits >= MaxPermits /\ owns' = [owns EXCEPT ![t] = FALSE] /\ Goto(t, "wake")
      /\ UNCHANGED <<schedVars, waiters, registered, permits, seen, extra>>
  BY DEF ReleaseSaturated
<1>3. TypeOK'
  <2>1. WTypeOK(Points)'
    BY <1>1, <1>2, GotoType DEF Points
  <2> QED  BY <1>1, <1>2, <2>1 DEF TypeOK
<1>4. LoopInv'
  BY <1>1, <1>2 DEF LoopInv, Goto, CasPoints
<1>5. PermitsAccounted'
  <2>1. Owners' = Owners \ {t}
    BY <1>1, <1>2 DEF Owners
  <2>2. CASE owns[t]
    <3>1. Cardinality(Owners)' = Cardinality(Owners) - 1 /\ Cardinality(Owners) \in Nat
          /\ Cardinality(Owners) >= 1
      BY <1>1, <2>1, <2>2, OwnersCount
    <3> QED  BY <1>1, <1>2, <3>1 DEF PermitsAccounted
  <2>3. CASE ~owns[t]
    <3>1. Owners' = Owners
      BY <2>1, <2>3 DEF Owners
    <3> QED  BY <1>1, <1>2, <3>1 DEF PermitsAccounted
  <2> QED  BY <2>2, <2>3
<1> QED  BY <1>3, <1>4, <1>5 DEF IInv

\* Every step keeps the invariant.
LEMMA NextIInv == IInv /\ [Next]_vars => IInv'
<1> SUFFICES ASSUME IInv, [Next]_vars
             PROVE  IInv'
  OBVIOUS
<1>1. CASE UNCHANGED vars
  BY <1>1 DEF vars, waitVars, IInv, TypeOK, WTypeOK, LoopInv, PermitsAccounted, Owners
<1>2. ASSUME NEW t \in Tasks, Acquiring(t)
      PROVE  IInv'
  BY <1>2, LoadNoneIInv, RetryIInv, AcquireIInv DEF Acquiring
<1>3. ASSUME NEW t \in Tasks, Releasing(t)
      PROVE  IInv'
  BY <1>3, SaturatedIInv, RetryIInv, ReleaseIInv DEF Releasing
<1>4. ASSUME NEW t \in Tasks, Step(t)
      PROVE  IInv'
  BY <1>2, <1>3, <1>4, OutsideIInv, EnterIInv DEF Step
<1> QED  BY <1>1, <1>4 DEF Next

\* The inductive invariant holds in every reachable state.
THEOREM Invariance == Spec => []IInv
BY InitIInv, NextIInv, PTL DEF Spec

\* The permit count stays between zero and the maximum, in every interleaving
\* of the retry loops.
THEOREM TypeCorrect == Spec => []TypeOK
<1>1. IInv => TypeOK
  BY DEF IInv
<1> QED  BY <1>1, Invariance, PTL

\* Racing acquire() and release() neither create nor lose a permit.
THEOREM PermitsAreAccounted == Spec => []PermitsAccounted
<1>1. IInv => PermitsAccounted
  BY DEF IInv
<1> QED  BY <1>1, Invariance, PTL

-----------------------------------------------------------------------------
(* One CPU: what the waiter queue holds, and who is on its way to a permit.  *)

\* One task is polled at a time: a task that is not being polled is outside the
\* semaphore's code or pending in acquire(), the slow path runs only while there
\* is no permit, what a retry loop loaded is still the count, and a queued
\* waiter is not ready.
OnePoll ==
  /\ \A t, u \in running : t = u
  /\ running \cap ready = {}
  /\ \A t \in Tasks \ running : pc[t] \in {"idle", "hold", "wait"}
  /\ \A t \in running : pc[t] \notin {"wait", "recheck_cas"}
  /\ \A t \in Tasks : pc[t] \in {"register", "recheck"} => permits = 0
  /\ \A t \in Tasks : pc[t] \in {"try_cas", "fast_cas", "release_cas"} => seen[t] = permits
  /\ NoDuplicateWaiter
  /\ \A t \in Tasks : InWaiters(t) => pc[t] \in {"recheck", "wait"} /\ t \notin ready

OneCpuInv == cpus = 1 => OnePoll /\ NoStall

\* A step of the polled task that moves only its own program counter.
LEMMA LocalStep ==
  ASSUME TypeOK, OnePoll, NEW t \in running, NEW s \in Points \ {"wait", "recheck_cas"}, Goto(t, s),
         pc[t] # "recheck", s \in {"register", "recheck"} => permits' = 0,
         s \in {"try_cas", "fast_cas", "release_cas"} => seen'[t] = permits',
         UNCHANGED <<schedVars, waiters>>
  PROVE  OnePoll'
<1>1. t \in Tasks /\ pc' \in [Tasks -> Points] /\ pc'[t] = s
      /\ \A u \in Tasks : u # t => pc'[u] = pc[u]
  BY DEF TypeOK, WTypeOK, Goto
<1>2. \A u \in Tasks : u # t => pc[u] \in {"idle", "hold", "wait"}
  BY DEF OnePoll
<1>3. /\ \A u \in Tasks : pc'[u] \in {"register", "recheck"} => permits' = 0
      /\ \A u \in Tasks : pc'[u] \in {"try_cas", "fast_cas", "release_cas"} => seen'[u] = permits'
  BY <1>1, <1>2
<1>4. ~InWaiters(t)
  BY <1>1 DEF OnePoll
<1>5. \A u : InWaiters(u)' <=> InWaiters(u)
  BY DEF InWaiters
<1>6. NoDuplicateWaiter'
  BY DEF OnePoll, NoDuplicateWaiter
<1>7. /\ \A u, v \in running' : u = v
      /\ running' \cap ready' = {}
      /\ \A u \in Tasks \ running' : pc'[u] \in {"idle", "hold", "wait"}
      /\ \A u \in running' : pc'[u] \notin {"wait", "recheck_cas"}
  BY <1>1 DEF OnePoll, schedVars
<1>8. \A u \in Tasks : InWaiters(u)' => pc'[u] \in {"recheck", "wait"} /\ u \notin ready'
  BY <1>1, <1>4, <1>5 DEF OnePoll, schedVars
<1> QED  BY <1>3, <1>6, <1>7, <1>8 DEF OnePoll

\* The retry loops, on one CPU: the slow path's double-check finds no permit,
\* and no compare_exchange fails.
LEMMA OneCpuLoops ==
  ASSUME TypeOK, OnePoll, NEW t \in Tasks, NEW site \in Sites
  PROVE  /\ LoadSome(t, site) => site \in {"try", "fast"}
         /\ AcquireCas(t, site) => site \in {"try", "fast"}
         /\ ~AcquireRetry(t, site)
         /\ ~ReleaseRetry(t)
<1>1. permits \in 0..MaxPermits /\ MaxPermits \in Nat /\ running \subseteq Tasks
  BY SemaphoreAssumption DEF TypeOK, WTypeOK
<1>2. LoadSome(t, site) => site \in {"try", "fast"}
  BY <1>1 DEF LoadSome, At, Sites, OnePoll
<1>3. ASSUME At(t, Cas(site))
      PROVE  site \in {"try", "fast"} /\ seen[t] = permits
  BY <1>1, <1>3 DEF At, Cas, Sites, OnePoll
<1>4. ~ReleaseRetry(t)
  BY DEF ReleaseRetry, At, OnePoll
<1> QED  BY <1>2, <1>3, <1>4 DEF AcquireCas, AcquireRetry

\* On one CPU every step keeps OnePoll.
LEMMA NextOnePoll ==
  ASSUME TypeOK, cpus = 1, OnePoll, NEW t \in Tasks, Step(t)
  PROVE  OnePoll'
<1>1. WTypeOK(Points) /\ waiters \in Seq(Tasks) /\ pc \in [Tasks -> Points]
      /\ running \subseteq Tasks /\ ready \subseteq Tasks /\ seen \in [Tasks -> 0..MaxPermits]
  BY DEF TypeOK, WTypeOK
<1>2. CASE TryAcquire(t) \/ ReleaseOwned(t) \/ ReleaseUnowned(t) \/ NewFuture(t)
           \/ ReleaseSaturated(t) \/ ReleaseCas(t)
  <2>1. t \in running /\ pc[t] # "recheck" /\ UNCHANGED <<schedVars, waiters>>
    BY <1>2 DEF TryAcquire, ReleaseOwned, ReleaseUnowned, NewFuture, ReleaseSaturated, ReleaseCas, At
  <2>2. PICK s \in {"try", "release", "fast", "wake"} : Goto(t, s)
    BY <1>2 DEF TryAcquire, ReleaseOwned, ReleaseUnowned, NewFuture, ReleaseSaturated, ReleaseCas
  <2> QED  BY <2>1, <2>2, LocalStep DEF Points
<1>3. CASE ReleaseLoad(t)
  <2>1. /\ t \in running /\ pc[t] # "recheck" /\ UNCHANGED <<schedVars, waiters>>
        /\ Goto(t, "release_cas") /\ seen'[t] = permits'
    BY <1>1, <1>3 DEF ReleaseLoad, At
  <2> QED  BY <2>1, LocalStep DEF Points
<1>4. ASSUME NEW site \in Sites, LoadSome(t, site)
      PROVE  OnePoll'
  <2>1. site \in {"try", "fast"}
    BY <1>4, OneCpuLoops
  <2>2. Cas(site) \in {"try_cas", "fast_cas"}
    BY <2>1 DEF Cas
  <2>3. /\ t \in running /\ pc[t] # "recheck" /\ UNCHANGED <<schedVars, waiters>>
        /\ Goto(t, Cas(site)) /\ seen'[t] = permits'
    BY <1>1, <1>4, <2>1 DEF LoadSome, At
  <2> QED  BY <2>2, <2>3, LocalStep DEF Points
<1>5. ASSUME NEW site \in Sites, AcquireCas(t, site)
      PROVE  OnePoll'
  <2>1. Cas(site) # "recheck"
    BY CasPoint DEF CasPoints
  <2>2. /\ t \in running /\ pc[t] # "recheck" /\ UNCHANGED <<schedVars, waiters>> /\ Goto(t, "hold")
    BY <1>5, <2>1 DEF AcquireCas, At
  <2> QED  BY <2>2, LocalStep DEF Points
<1>6. ASSUME NEW site \in Sites, LoadNone(t, site)
      PROVE  OnePoll'
  <2>1. permits = 0 /\ permits' = 0 /\ t \in running /\ pc[t] = site /\ seen' = seen
    BY <1>6 DEF LoadNone, At, semVars
  <2>2. CASE site \in {"try", "fast"}
    <3>1. PICK s \in {"idle", "register"} : Goto(t, s) /\ UNCHANGED <<schedVars, waiters>>
      BY <1>6, <2>2 DEF LoadNone
    <3> QED  BY <2>1, <2>2, <3>1, LocalStep DEF Points
  <2>3. CASE site = "recheck"
    <3>1. /\ running' = running \ {t} /\ pc' = [pc EXCEPT ![t] = "wait"] /\ UNCHANGED <<cpus, ready, waiters>>
      BY <1>6, <2>3 DEF LoadNone, Suspend, Goto
    <3>2. running' = {}
      BY <2>1, <3>1 DEF OnePoll
    <3>3. NoDuplicateWaiter' /\ \A u : InWaiters(u)' <=> InWaiters(u)
      BY <3>1 DEF OnePoll, NoDuplicateWaiter, InWaiters
    <3> QED  BY <1>1, <2>1, <2>3, <3>1, <3>2, <3>3 DEF OnePoll
  <2> QED  BY <2>2, <2>3 DEF Sites
<1>7. CASE Register(t) /\ UNCHANGED semVars
  <2>1. /\ t \in running /\ pc[t] = "register" /\ permits = 0 /\ permits' = 0 /\ seen' = seen
        /\ pc' = [pc EXCEPT ![t] = "recheck"] /\ UNCHANGED <<cpus, ready, running>>
    BY <1>7 DEF Register, At, Goto, OnePoll, schedVars, semVars
  <2>2. ~InWaiters(t) /\ t \notin ready
    BY <2>1 DEF OnePoll
  <2>3. /\ NoDuplicateWaiter'
        /\ \A u : InWaiters(u)' => InWaiters(u) \/ u = t
    <3>1. CASE waiters' = Append(waiters, t)
      BY <1>1, <2>2, <3>1, PushWaiter DEF OnePoll
    <3>2. CASE waiters' = waiters
      BY <3>2 DEF OnePoll, NoDuplicateWaiter, InWaiters
    <3> QED  BY <1>7, <3>1, <3>2 DEF Register
  <2>4. \A u \in Tasks : InWaiters(u)' => pc'[u] \in {"recheck", "wait"} /\ u \notin ready'
    BY <1>1, <2>1, <2>2, <2>3 DEF OnePoll
  <2> QED  BY <1>1, <2>1, <2>3, <2>4 DEF OnePoll
<1>8. CASE Poll(t) /\ UNCHANGED semVars
  <2>1. /\ t \in ready /\ Cardinality(running) < 1 /\ running' = running \cup {t} /\ ready' = ready \ {t}
        /\ pc' = [pc EXCEPT ![t] = IF pc[t] = "wait" THEN "fast" ELSE pc[t]]
        /\ UNCHANGED <<cpus, waiters, permits, seen>>
    BY <1>8 DEF Poll, Goto, semVars
  <2>2. running = {}
    <3>1. IsFiniteSet(running)
      BY <1>1, SemaphoreAssumption, FS_Subset
    <3>2. Cardinality(running) \in Nat
      BY <3>1, FS_CardinalityType
    <3>3. Cardinality(running) = 0
      BY <2>1, <3>2
    <3> QED  BY <3>1, <3>3, FS_EmptySet
  <2>3. running' = {t}
    BY <2>1, <2>2
  <2>4. NoDuplicateWaiter' /\ \A u : InWaiters(u)' <=> InWaiters(u)
    BY <2>1 DEF OnePoll, NoDuplicateWaiter, InWaiters
  <2>5. pc'[t] \in {"idle", "hold", "fast"} /\ \A u \in Tasks : u # t => pc'[u] = pc[u]
    <3>1. pc[t] \in {"idle", "hold", "wait"}
      BY <2>2 DEF OnePoll
    <3> QED  BY <1>1, <2>1, <3>1
  <2> QED  BY <1>1, <2>1, <2>2, <2>3, <2>4, <2>5 DEF OnePoll
<1>9. CASE Yield(t) /\ UNCHANGED semVars
  <2>1. /\ t \in running /\ pc[t] \in {"idle", "hold"}
        /\ running' = running \ {t} /\ ready' = ready \cup {t}
        /\ UNCHANGED <<cpus, waiters, pc, permits, seen>>
    BY <1>9 DEF Yield, At, semVars
  <2>2. running' = {}
    BY <2>1 DEF OnePoll
  <2>3. NoDuplicateWaiter' /\ \A u : InWaiters(u)' <=> InWaiters(u)
    BY <2>1 DEF OnePoll, NoDuplicateWaiter, InWaiters
  <2> QED  BY <1>1, <2>1, <2>2, <2>3 DEF OnePoll
<1>10. CASE WakeNext(t) /\ UNCHANGED semVars
  <2>1. /\ t \in running /\ pc[t] = "wake" /\ pc' = [pc EXCEPT ![t] = "idle"]
        /\ UNCHANGED <<cpus, running, permits, seen>>
    BY <1>10 DEF WakeNext, At, Goto, semVars
  <2>2. CASE waiters = <<>>
    <3>1. Goto(t, "idle") /\ UNCHANGED <<schedVars, waiters>>
      BY <1>10, <2>2 DEF WakeNext, schedVars
    <3> QED  BY <2>1, <3>1, LocalStep DEF Points
  <2>3. CASE waiters # <<>>
    <3>1. waiters' = Tail(waiters) /\ ready' = ready \cup {Head(waiters)}
      BY <1>10, <2>3 DEF WakeNext
    <3>2. /\ NoDuplicateWaiter' /\ Head(waiters) \in Tasks /\ InWaiters(Head(waiters))
          /\ \A u : InWaiters(u)' => InWaiters(u) /\ u # Head(waiters)
      BY <1>1, <2>3, <3>1, PopWaiter DEF OnePoll
    <3>3. Head(waiters) # t /\ Head(waiters) \notin running
      BY <2>1, <3>2 DEF OnePoll
    <3>4. ~InWaiters(t)
      BY <2>1 DEF OnePoll
    <3> QED  BY <1>1, <2>1, <3>1, <3>2, <3>3, <3>4 DEF OnePoll
  <2> QED  BY <2>2, <2>3
<1>11. CASE Acquiring(t)
  BY <1>4, <1>5, <1>6, <1>11, OneCpuLoops DEF Acquiring
<1>12. CASE Releasing(t)
  BY <1>2, <1>3, <1>12, OneCpuLoops DEF Releasing, Sites
<1> QED
  BY <1>2, <1>7, <1>8, <1>9, <1>10, <1>11, <1>12 DEF Step

Way == {t \in Tasks : OnItsWay(t)}

\* The tasks on their way can be counted, before and after a step.
LEMMA WayCount ==
  /\ IsFiniteSet(Way) /\ Cardinality(Way) \in Nat
  /\ IsFiniteSet(Way') /\ Cardinality(Way') \in Nat
<1>1. Way \subseteq Tasks /\ Way' \subseteq Tasks
  BY DEF Way
<1> QED  BY <1>1, SemaphoreAssumption, FS_Subset, FS_CardinalityType

\* A step that adds no permit and sends nobody away keeps NoStall.
LEMMA NobodyLeaves ==
  ASSUME TypeOK, NoStall, UNCHANGED <<cpus, permits, waiters>>, Way \subseteq Way'
  PROVE  NoStall'
<1>1. permits \in Nat
  BY SemaphoreAssumption DEF TypeOK
<1>2. Cardinality(Way) <= Cardinality(Way')
  BY WayCount, FS_Subset
<1> QED  BY <1>1, <1>2, WayCount DEF NoStall, Way

\* Without a permit or without waiters there is nothing to show.
LEMMA NothingToStall ==
  ASSUME permits' = 0 \/ waiters' = <<>>
  PROVE  NoStall'
BY WayCount DEF NoStall, Way

\* On one CPU every step keeps NoStall.
LEMMA NextNoStall ==
  ASSUME TypeOK, cpus = 1, cpus' = 1, OnePoll, NoStall, NEW t \in Tasks, Step(t)
  PROVE  NoStall'
<1>1. waiters \in Seq(Tasks) /\ pc \in [Tasks -> Points] /\ permits \in Nat
      /\ running \subseteq Tasks /\ ready \subseteq Tasks /\ seen \in [Tasks -> 0..MaxPermits]
  BY SemaphoreAssumption DEF TypeOK, WTypeOK
<1>2. CASE Poll(t) /\ UNCHANGED semVars
  <2>1. \A u \in Tasks : OnItsWay(u) => OnItsWay(u)'
    BY <1>1, <1>2 DEF Poll, Goto, OnItsWay
  <2> QED  BY <1>2, <2>1, NobodyLeaves DEF Poll, semVars, Way
<1>3. CASE Yield(t) /\ UNCHANGED semVars
  <2>1. \A u \in Tasks : OnItsWay(u) => OnItsWay(u)'
    BY <1>1, <1>3 DEF Yield, At, OnItsWay
  <2> QED  BY <1>3, <2>1, NobodyLeaves DEF Yield, semVars, Way
<1>4. CASE Register(t) /\ UNCHANGED semVars
  BY <1>4, NothingToStall DEF Register, At, OnePoll, semVars
<1>5. CASE (NewFuture(t) /\ UNCHANGED semVars) \/ TryAcquire(t) \/ ReleaseOwned(t) \/ ReleaseUnowned(t)
           \/ ReleaseSaturated(t) \/ ReleaseLoad(t)
  <2>1. /\ At(t, "idle") \/ At(t, "hold") \/ At(t, "release")
        /\ UNCHANGED <<cpus, ready, running, waiters, permits>>
        /\ \E s : Goto(t, s)
    BY <1>5 DEF NewFuture, TryAcquire, ReleaseOwned, ReleaseUnowned, ReleaseSaturated, ReleaseLoad,
                schedVars, semVars
  <2>2. pc[t] \in {"idle", "hold", "release"} /\ \A u \in Tasks : u # t => pc'[u] = pc[u]
    BY <1>1, <2>1 DEF At, Goto
  <2>3. \A u \in Tasks : OnItsWay(u) => OnItsWay(u)'
    BY <2>1, <2>2 DEF OnItsWay, At
  <2> QED  BY <2>1, <2>3, NobodyLeaves DEF Way
<1>6. ASSUME NEW site \in Sites, LoadSome(t, site)
      PROVE  NoStall'
  <2>1. site \in {"try", "fast"} /\ Cas(site) \in {"try_cas", "fast_cas"}
    BY <1>6, OneCpuLoops DEF Cas
  <2>2. /\ t \in running /\ pc' = [pc EXCEPT ![t] = Cas(site)]
        /\ UNCHANGED <<cpus, ready, running, waiters, permits>>
    BY <1>6 DEF LoadSome, At, Goto, schedVars
  <2>3. \A u \in Tasks : OnItsWay(u) => OnItsWay(u)'
    BY <1>1, <2>1, <2>2 DEF OnItsWay
  <2> QED  BY <2>2, <2>3, NobodyLeaves DEF Way
<1>7. ASSUME NEW site \in Sites, LoadNone(t, site)
      PROVE  NoStall'
  BY <1>7, NothingToStall DEF LoadNone, semVars
<1>8. ASSUME NEW site \in Sites, AcquireCas(t, site)
      PROVE  NoStall'
  <2>1. Cas(site) \in {"try_cas", "fast_cas"}
    BY <1>8, OneCpuLoops DEF Cas
  <2>2. /\ t \in running /\ pc[t] = Cas(site) /\ permits' = permits - 1
        /\ pc' = [pc EXCEPT ![t] = "hold"] /\ UNCHANGED <<cpus, ready, running, waiters>>
    BY <1>8 DEF AcquireCas, At, Goto, schedVars
  <2>3. t \in Way
    BY <2>1, <2>2 DEF Way, OnItsWay
  <2>4. Way' = Way \ {t}
    BY <1>1, <2>2 DEF Way, OnItsWay
  <2>5. Cardinality(Way') = Cardinality(Way) - 1
    BY <2>3, <2>4, WayCount, FS_RemoveElement
  <2> QED  BY <1>1, <2>2, <2>5, WayCount DEF NoStall, Way
<1>9. CASE ReleaseCas(t)
  <2>1. /\ t \in running /\ pc[t] = "release_cas" /\ permits' = permits + 1
        /\ pc' = [pc EXCEPT ![t] = "wake"] /\ UNCHANGED <<cpus, ready, running, waiters>>
    BY <1>9 DEF ReleaseCas, At, Goto, schedVars
  <2>2. t \notin Way
    BY <2>1 DEF Way, OnItsWay
  <2>3. Way' = Way \cup {t}
    BY <1>1, <2>1 DEF Way, OnItsWay
  <2>4. Cardinality(Way') = Cardinality(Way) + 1
    BY <2>2, <2>3, WayCount, FS_AddElement
  <2> QED  BY <1>1, <2>1, <2>4, WayCount DEF NoStall, Way
<1>10. CASE WakeNext(t) /\ UNCHANGED semVars
  <2>1. CASE waiters = <<>>
    BY <1>10, <2>1, NothingToStall DEF WakeNext
  <2>2. CASE waiters # <<>>
    <3>0. PICK h \in Tasks : h = Head(waiters)
      BY <1>1, <2>2
    <3>1. /\ waiters' = Tail(waiters) /\ ready' = ready \cup {h} /\ pc' = [pc EXCEPT ![t] = "idle"]
          /\ t \in running /\ pc[t] = "wake" /\ UNCHANGED <<cpus, running, permits>>
      BY <1>10, <2>2, <3>0 DEF WakeNext, Goto, At, semVars
    <3>2. InWaiters(h)
      BY <1>1, <2>2, <3>0, <3>1, PopWaiter DEF OnePoll
    <3>3. h # t /\ h \notin running /\ pc[h] = "wait" /\ h \notin ready
      BY <3>1, <3>2 DEF OnePoll
    <3>4. t \in Way /\ h \notin Way \ {t}
      BY <3>1, <3>3 DEF Way, OnItsWay
    <3>5. Way' = (Way \ {t}) \cup {h}
      BY <1>1, <3>1, <3>3 DEF Way, OnItsWay
    <3>6. Cardinality(Way \ {t}) = Cardinality(Way) - 1 /\ IsFiniteSet(Way \ {t})
      BY <3>4, WayCount, FS_RemoveElement
    <3>7. Cardinality(Way') = Cardinality(Way \ {t}) + 1
      BY <3>4, <3>5, <3>6, FS_AddElement
    <3>8. Cardinality(Way') = Cardinality(Way)
      BY <3>6, <3>7, WayCount
    <3> QED  BY <2>2, <3>1, <3>8 DEF NoStall, Way
  <2> QED  BY <2>1, <2>2
<1>11. CASE Acquiring(t)
  BY <1>6, <1>7, <1>8, <1>11, OneCpuLoops DEF Acquiring
<1>12. CASE Releasing(t)
  BY <1>5, <1>9, <1>12, OneCpuLoops DEF Releasing, Sites
<1> QED
  BY <1>2, <1>3, <1>4, <1>5, <1>10, <1>11, <1>12 DEF Step

\* No step changes the number of CPUs.
LEMMA CpusStay ==
  ASSUME NEW t \in Tasks, Step(t)
  PROVE  cpus' = cpus
<1>1. ASSUME Acquiring(t)
      PROVE  cpus' = cpus
  BY <1>1 DEF Acquiring, LoadSome, LoadNone, Suspend, AcquireCas, AcquireRetry, schedVars
<1>2. ASSUME Releasing(t)
      PROVE  cpus' = cpus
  BY <1>2 DEF Releasing, ReleaseSaturated, ReleaseLoad, ReleaseCas, ReleaseRetry, schedVars
<1> QED  BY <1>1, <1>2 DEF Step, Poll, Yield, NewFuture, Register, WakeNext, TryAcquire, ReleaseOwned,
                           ReleaseUnowned, schedVars

\* OneCpuInv holds in every reachable state.
THEOREM OneCpuInvariance == Spec => []OneCpuInv
<1>1. Init => OneCpuInv
  <2> SUFFICES ASSUME Init
               PROVE  OnePoll /\ NoStall
    BY DEF OneCpuInv
  <2>1. NoStall
    BY DEF Init, WInit, NoStall
  <2> QED  BY <2>1 DEF Init, WInit, OnePoll, NoDuplicateWaiter, InWaiters
<1>2. TypeOK /\ OneCpuInv /\ [Next]_vars => OneCpuInv'
  <2> SUFFICES ASSUME TypeOK, OneCpuInv, [Next]_vars, cpus' = 1
               PROVE  OnePoll' /\ NoStall'
    BY DEF OneCpuInv
  <2>1. CASE UNCHANGED vars
    BY <2>1 DEF vars, waitVars, OneCpuInv, OnePoll, NoStall, OnItsWay, NoDuplicateWaiter, InWaiters
  <2>2. ASSUME NEW t \in Tasks, Step(t)
        PROVE  OnePoll' /\ NoStall'
    BY <2>2, CpusStay, NextOnePoll, NextNoStall DEF OneCpuInv
  <2> QED  BY <2>1, <2>2 DEF Next
<1> QED  BY <1>1, <1>2, TypeCorrect, PTL DEF Spec

\* On one CPU the waiter queue holds only wakers of tasks that are pending in
\* acquire(), each at most once.
THEOREM QueuedWaitersArePending == Spec => []WaitersArePending
<1>1. TypeOK /\ OneCpuInv => WaitersArePending
  BY DEF TypeOK, WTypeOK, OneCpuInv, OnePoll, WaitersArePending, InWaiters
<1> QED  BY <1>1, OneCpuInvariance, TypeCorrect, PTL

\* On one CPU, while wakers are queued, every free permit has a task on its way
\* to it: no wake of release() is lost.
THEOREM SemaphoreDoesNotStall == Spec => []NoStall
<1>1. OneCpuInv => NoStall
  BY DEF OneCpuInv, NoStall
<1> QED  BY <1>1, OneCpuInvariance, PTL
=============================================================================
