--------------------------- MODULE Executor_proofs ---------------------------
(* Proofs about Executor, for any set of tasks and priorities, any queue     *)
(* capacity and any number of waker clones.                                  *)
EXTENDS Executor, TLAPS

-----------------------------------------------------------------------------
(* Lemmas on a run queue.                                                    *)

\* A push keeps what is queued and adds the pushed id.
LEMMA PushMembers ==
  ASSUME NEW S, NEW q \in Seq(S), NEW t \in S, NEW u
  PROVE  /\ Append(q, t) \in Seq(S)
         /\ Len(Append(q, t)) = Len(q) + 1
         /\ InQueue(u, Append(q, t)) <=> InQueue(u, q) \/ u = t
<1>1. /\ Append(q, t) \in Seq(S)
      /\ Len(Append(q, t)) = Len(q) + 1
      /\ \A i \in 1..Len(q) : Append(q, t)[i] = q[i]
      /\ Append(q, t)[Len(q) + 1] = t
      /\ Len(q) \in Nat
  OBVIOUS
<1>2. ASSUME InQueue(u, q) PROVE InQueue(u, Append(q, t))
  BY <1>1, <1>2 DEF InQueue
<1>3. ASSUME u = t PROVE InQueue(u, Append(q, t))
  BY <1>1, <1>3 DEF InQueue
<1>4. ASSUME InQueue(u, Append(q, t)), u # t PROVE InQueue(u, q)
  <2>1. PICK i \in 1..Len(Append(q, t)) : Append(q, t)[i] = u
    BY <1>4 DEF InQueue
  <2>2. i \in 1..Len(q)
    BY <1>1, <1>4, <2>1
  <2> QED  BY <1>1, <2>1, <2>2 DEF InQueue
<1> QED  BY <1>1, <1>2, <1>3, <1>4

\* A pop takes away the head and nothing else.
LEMMA PopMembers ==
  ASSUME NEW S, NEW q \in Seq(S), q # <<>>, NEW u
  PROVE  /\ Head(q) \in S
         /\ Tail(q) \in Seq(S)
         /\ Len(Tail(q)) <= Len(q)
         /\ InQueue(u, Tail(q)) => InQueue(u, q)
         /\ InQueue(u, q) /\ u # Head(q) => InQueue(u, Tail(q))
         /\ InQueue(Head(q), q)
<1>1. /\ Head(q) \in S
      /\ Head(q) = q[1]
      /\ Tail(q) \in Seq(S)
      /\ Len(q) \in Nat
      /\ Len(q) >= 1
      /\ Len(Tail(q)) = Len(q) - 1
      /\ \A i \in 1..Len(Tail(q)) : Tail(q)[i] = q[i + 1]
  OBVIOUS
<1>2. ASSUME InQueue(u, Tail(q)) PROVE InQueue(u, q)
  <2>1. PICK i \in 1..Len(Tail(q)) : Tail(q)[i] = u
    BY <1>2 DEF InQueue
  <2>2. i + 1 \in 1..Len(q) /\ q[i + 1] = u
    BY <1>1, <2>1
  <2> QED  BY <2>2 DEF InQueue
<1>3. ASSUME InQueue(u, q), u # Head(q) PROVE InQueue(u, Tail(q))
  <2>1. PICK i \in 1..Len(q) : q[i] = u
    BY <1>3 DEF InQueue
  <2>2. i # 1
    BY <1>1, <1>3, <2>1
  <2>3. i - 1 \in 1..Len(Tail(q)) /\ Tail(q)[i - 1] = u
    BY <1>1, <2>1, <2>2
  <2> QED  BY <2>3 DEF InQueue
<1>4. InQueue(Head(q), q)
  BY <1>1 DEF InQueue
<1> QED  BY <1>1, <1>2, <1>3, <1>4

-----------------------------------------------------------------------------
(* The inductive invariant.                                                  *)

\* A waker that can still be used pushes to the queue of its task's priority.
WakersOwnQueue ==
  \A t \in Tasks : t \in waker_cache \/ armed[t] > 0 => task_waker[t] = Prio[t]

\* A task is current exactly during its poll, and its waker is cached then.
CurrentIsPolled ==
  /\ pc = "poll" <=> current # NoTask
  /\ current # NoTask => current \in waker_cache

WillRun(t) == Queued(t) \/ armed[t] > 0 \/ t \in refused

\* What the polled task has arranged for is still so when its poll returns.
ArrangedWakes == pc = "poll" /\ arranged => WillRun(current)

\* From the check of the queues to HLT no interrupt handler runs.
QuietSleep ==
  /\ pc \in {"check", "hlt", "enable"} => ~interrupts
  /\ pc \in {"hlt", "halted"} => AllEmpty

IInv ==
  /\ TypeOK
  /\ QueuedAtOwnPriority
  /\ NoLostTask
  /\ DrainedInOrder
  /\ WakersOwnQueue
  /\ CurrentIsPolled
  /\ ArrangedWakes
  /\ QuietSleep

\* A wake through a usable waker pushes the id on the queue of the task's
\* priority or records the refusal, keeps every other entry, and marks the
\* level if this pass has drained it.
LEMMA WakeEffect ==
  ASSUME TypeOK, QueuedAtOwnPriority, NEW t \in Tasks, task_waker[t] = Prio[t], Wake(t)
  PROVE  /\ task_queues' \in [Levels -> Seq(Tasks)]
         /\ \A l \in Levels : Len(task_queues'[l]) <= QueueCapacity
         /\ refused \subseteq refused' /\ refused' \subseteq Tasks
         /\ late \subseteq late' /\ late' \subseteq Levels
         /\ \A l \in Levels : \A u : InQueue(u, task_queues[l]) => InQueue(u, task_queues'[l])
         /\ \A l \in Levels : \A u :
              InQueue(u, task_queues'[l]) => InQueue(u, task_queues[l]) \/ (u = t /\ l = Prio[t])
         /\ \/ InQueue(t, task_queues'[Prio[t]])
            \/ t \in refused' /\ task_queues' = task_queues
         /\ \A l \in Levels : l > level /\ task_queues'[l] # task_queues[l] => l \in late'
<1> DEFINE l0 == Prio[t]
<1>1. l0 \in Levels /\ task_queues[l0] \in Seq(Tasks) /\ Len(task_queues[l0]) \in Nat
  BY ExecutorAssumption DEF TypeOK
<1>2. CASE Len(task_queues[l0]) >= QueueCapacity
  BY <1>1, <1>2 DEF Wake, TypeOK
<1>3. CASE ~(Len(task_queues[l0]) >= QueueCapacity)
  <2>1. /\ task_queues' = [task_queues EXCEPT ![l0] = Append(task_queues[l0], t)]
        /\ refused' = refused
        /\ late' = IF l0 > level THEN late \cup {l0} ELSE late
    BY <1>3 DEF Wake
  <2>2. Len(task_queues[l0]) + 1 <= QueueCapacity
    BY <1>1, <1>3, ExecutorAssumption
  <2>3. /\ task_queues'[l0] = Append(task_queues[l0], t)
        /\ \A l \in Levels : l # l0 => task_queues'[l] = task_queues[l]
    BY <1>1, <2>1 DEF TypeOK
  <2>4. /\ task_queues' \in [Levels -> Seq(Tasks)]
        /\ \A l \in Levels : Len(task_queues'[l]) <= QueueCapacity
    BY <1>1, <2>1, <2>2, <2>3, PushMembers DEF TypeOK
  <2>5. \A u : InQueue(u, task_queues'[l0]) <=> InQueue(u, task_queues[l0]) \/ u = t
    BY <1>1, <2>3, PushMembers
  <2>6. /\ refused \subseteq refused' /\ refused' \subseteq Tasks
        /\ late \subseteq late' /\ late' \subseteq Levels
        /\ \A l \in Levels : l > level /\ task_queues'[l] # task_queues[l] => l \in late'
    BY <1>1, <2>1, <2>3 DEF TypeOK
  <2> QED  BY <1>1, <2>3, <2>4, <2>5, <2>6
<1> QED  BY <1>2, <1>3

\* QueuedAtOwnPriority in terms of queue membership.
LEMMA OwnPriority ==
  QueuedAtOwnPriority <=>
    \A l \in Levels : \A u : InQueue(u, task_queues[l]) => Prio[u] = l
BY DEF QueuedAtOwnPriority, InQueue

\* The initial state satisfies the invariant.
LEMMA InitIInv == Init => IInv
<1> SUFFICES ASSUME Init
             PROVE  IInv
  OBVIOUS
<1>1. TypeOK
  <2>1. task_queues \in [Levels -> Seq(Tasks)] /\ \A l \in Levels : Len(task_queues[l]) <= QueueCapacity
    BY ExecutorAssumption DEF Init
  <2>2. armed \in [Tasks -> 0..MaxClones]
    BY ExecutorAssumption DEF Init
  <2>3. task_waker \in [Tasks -> Levels \cup {NoQueue}]
    BY DEF Init
  <2> QED  BY <2>1, <2>2, <2>3 DEF Init, TypeOK, PcValues, Levels
<1>2. QueuedAtOwnPriority
  BY DEF Init, QueuedAtOwnPriority
<1>3. NoLostTask /\ DrainedInOrder /\ CurrentIsPolled /\ ArrangedWakes /\ QuietSleep
  BY DEF Init, NoLostTask, DrainedInOrder, CurrentIsPolled, ArrangedWakes, QuietSleep
<1>4. WakersOwnQueue
  BY DEF Init, WakersOwnQueue
<1> QED  BY <1>1, <1>2, <1>3, <1>4 DEF IInv

-----------------------------------------------------------------------------
(* The steps that wake a task.                                               *)

\* What a wake does to the invariant, whoever performs it.
LEMMA WakeKeeps ==
  ASSUME IInv, NEW t \in Tasks, task_waker[t] = Prio[t], Wake(t),
         UNCHANGED <<tasks, level>>
  PROVE  /\ task_queues' \in [Levels -> Seq(Tasks)]
         /\ \A l \in Levels : Len(task_queues'[l]) <= QueueCapacity
         /\ refused' \subseteq Tasks /\ late' \subseteq Levels
         /\ QueuedAtOwnPriority'
         /\ \A u \in Tasks : u # t /\ (Queued(u) \/ u \in refused) => Queued(u)' \/ u \in refused'
         /\ Queued(t)' \/ t \in refused'
         /\ pc \in {"scan", "poll"} =>
              \A l \in Levels : l > level /\ task_queues'[l] # <<>> => l \in late'
<1>1. TypeOK /\ QueuedAtOwnPriority /\ DrainedInOrder /\ Prio[t] \in Levels
  BY ExecutorAssumption DEF IInv
<1>2. QueuedAtOwnPriority'
  <2>1. \A l \in Levels : \A u : InQueue(u, task_queues'[l]) => Prio[u] = l
    BY <1>1, WakeEffect, OwnPriority
  <2> QED  BY <2>1 DEF QueuedAtOwnPriority, InQueue
<1>3. \A u \in Tasks : u # t /\ (Queued(u) \/ u \in refused) => Queued(u)' \/ u \in refused'
  BY <1>1, WakeEffect DEF Queued
<1>4. Queued(t)' \/ t \in refused'
  BY <1>1, WakeEffect DEF Queued
<1>5. ASSUME pc \in {"scan", "poll"}, NEW l \in Levels, l > level, task_queues'[l] # <<>>
      PROVE  l \in late'
  <2>1. CASE task_queues'[l] = task_queues[l]
    BY <1>1, <1>5, <2>1, WakeEffect DEF DrainedInOrder
  <2>2. CASE task_queues'[l] # task_queues[l]
    BY <1>1, <1>5, <2>2, WakeEffect
  <2> QED  BY <2>1, <2>2
<1> QED  BY <1>1, <1>2, <1>3, <1>4, <1>5, WakeEffect

\* yield_now keeps the invariant.
LEMMA PollYieldIInv == IInv /\ PollYield => IInv'
<1> SUFFICES ASSUME IInv, PollYield
             PROVE  IInv'
  OBVIOUS
<1>1. /\ current \in Tasks /\ current # NoTask /\ current \in waker_cache
      /\ task_waker[current] = Prio[current]
  BY ExecutorAssumption DEF IInv, PollYield, TypeOK, CurrentIsPolled, WakersOwnQueue
<1>2. Wake(current) /\ arranged' = TRUE /\ pc = "poll"
      /\ UNCHANGED <<spawned, tasks, waker_cache, task_waker, pc, level, current, interrupts, armed>>
  BY DEF PollYield
<1>3. TypeOK'
  BY <1>1, <1>2, WakeKeeps DEF IInv, TypeOK
<1>4. QueuedAtOwnPriority' /\ DrainedInOrder'
  BY <1>1, <1>2, WakeKeeps DEF DrainedInOrder
<1>5. NoLostTask' /\ ArrangedWakes'
  <2>1. \A u \in tasks \ {current} : Queued(u)' \/ armed'[u] > 0 \/ u \in refused'
    BY <1>1, <1>2, WakeKeeps DEF IInv, NoLostTask, TypeOK
  <2>2. Queued(current)' \/ current \in refused'
    BY <1>1, <1>2, WakeKeeps
  <2> QED  BY <1>2, <2>1, <2>2 DEF NoLostTask, ArrangedWakes, WillRun, Queued
<1>6. WakersOwnQueue' /\ CurrentIsPolled'
  BY <1>2 DEF IInv, WakersOwnQueue, CurrentIsPolled
<1>7. QuietSleep'
  BY <1>2 DEF QuietSleep
<1> QED  BY <1>3, <1>4, <1>5, <1>6, <1>7 DEF IInv

\* An event source that consumes a clone of t's waker keeps the invariant: the
\* polled task does it, or an interrupt handler while interrupts are enabled.
LEMMA ConsumeIInv ==
  ASSUME IInv, NEW t \in Tasks, armed[t] > 0,
         armed' = [armed EXCEPT ![t] = @ - 1], Wake(t), EndHalt,
         UNCHANGED <<spawned, tasks, waker_cache, task_waker, level, current, interrupts, arranged>>,
         pc = "poll" \/ interrupts
  PROVE  IInv'
<1>1. TypeOK /\ task_waker[t] = Prio[t]
  BY DEF IInv, WakersOwnQueue
<1>2. pc' \in PcValues /\ (pc' = "poll" <=> pc = "poll") /\ (pc' = "scan" <=> pc = "scan")
  BY <1>1 DEF EndHalt, TypeOK, PcValues
<1>3. /\ armed' \in [Tasks -> 0..MaxClones]
      /\ \A u \in Tasks : u # t => armed'[u] = armed[u]
      /\ \A u \in Tasks : armed'[u] > 0 => armed[u] > 0
  BY <1>1, ExecutorAssumption DEF TypeOK
<1>4. TypeOK'
  BY <1>1, <1>2, <1>3, WakeKeeps DEF TypeOK
<1>5. QueuedAtOwnPriority' /\ DrainedInOrder'
  BY <1>1, <1>2, WakeKeeps DEF DrainedInOrder
<1>6. \A u \in Tasks : WillRun(u) => WillRun(u)'
  BY <1>1, <1>3, WakeKeeps DEF WillRun
<1>7. NoLostTask' /\ ArrangedWakes'
  <2>1. NoLostTask'
    BY <1>1, <1>6 DEF IInv, NoLostTask, TypeOK, WillRun
  <2>2. pc = "poll" => current \in Tasks
    BY ExecutorAssumption DEF IInv, CurrentIsPolled, TypeOK
  <2> QED  BY <1>2, <1>6, <2>1, <2>2 DEF IInv, ArrangedWakes, WillRun
<1>8. WakersOwnQueue' /\ CurrentIsPolled'
  BY <1>2, <1>3 DEF IInv, WakersOwnQueue, CurrentIsPolled
<1>9. QuietSleep'
  BY DEF IInv, QuietSleep, EndHalt
<1> QED  BY <1>4, <1>5, <1>7, <1>8, <1>9 DEF IInv

-----------------------------------------------------------------------------
(* The steps that pop a run queue.                                           *)

\* What a pop at the current level does to the queues.
LEMMA PopEffect ==
  ASSUME TypeOK, QueuedAtOwnPriority, task_queues[level] # <<>>,
         task_queues' = [task_queues EXCEPT ![level] = Tail(@)]
  PROVE  /\ task_queues' \in [Levels -> Seq(Tasks)]
         /\ \A l \in Levels : Len(task_queues'[l]) <= QueueCapacity
         /\ QueuedAtOwnPriority'
         /\ Head(task_queues[level]) \in Tasks /\ Prio[Head(task_queues[level])] = level
         /\ Queued(Head(task_queues[level]))
         /\ \A l \in Levels : l # level => task_queues'[l] = task_queues[l]
         /\ \A u : u # Head(task_queues[level]) => (Queued(u)' <=> Queued(u))
<1> DEFINE h == Head(task_queues[level])
<1>1. level \in Levels /\ task_queues[level] \in Seq(Tasks) /\ Len(task_queues[level]) \in Nat
  BY DEF TypeOK
<1>2. /\ task_queues'[level] = Tail(task_queues[level])
      /\ \A l \in Levels : l # level => task_queues'[l] = task_queues[l]
  BY <1>1 DEF TypeOK
<1>3. /\ task_queues' \in [Levels -> Seq(Tasks)]
      /\ \A l \in Levels : Len(task_queues'[l]) <= QueueCapacity
  <2>1. Len(Tail(task_queues[level])) <= QueueCapacity /\ Tail(task_queues[level]) \in Seq(Tasks)
    BY <1>1, ExecutorAssumption DEF TypeOK
  <2> QED  BY <1>1, <1>2, <2>1 DEF TypeOK
<1>4. \A u : /\ InQueue(u, task_queues'[level]) => InQueue(u, task_queues[level])
             /\ InQueue(u, task_queues[level]) /\ u # h => InQueue(u, task_queues'[level])
  BY <1>1, <1>2, PopMembers
<1>5. h \in Tasks /\ InQueue(h, task_queues[level])
  BY <1>1, PopMembers
<1>6. QueuedAtOwnPriority'
  <2>1. \A l \in Levels : \A u : InQueue(u, task_queues'[l]) => Prio[u] = l
    BY <1>1, <1>2, <1>4, OwnPriority
  <2> QED  BY <2>1 DEF QueuedAtOwnPriority, InQueue
<1>7. \A u : u # h => (Queued(u)' <=> Queued(u))
  BY <1>1, <1>2, <1>4 DEF Queued
<1>8. Prio[h] = level /\ Queued(h)
  BY <1>1, <1>5, OwnPriority DEF Queued
<1> QED  BY <1>2, <1>3, <1>5, <1>6, <1>7, <1>8

\* Skipping a stale id keeps the invariant.
LEMMA PopStaleIInv == IInv /\ PopStale => IInv'
<1> SUFFICES ASSUME IInv, PopStale
             PROVE  IInv'
  OBVIOUS
<1>1. /\ TypeOK /\ QueuedAtOwnPriority /\ task_queues[level] # <<>> /\ pc = "scan"
      /\ task_queues' = [task_queues EXCEPT ![level] = Tail(@)]
      /\ Head(task_queues[level]) \notin tasks
      /\ UNCHANGED <<spawned, tasks, waker_cache, task_waker, pc, level, current,
                     interrupts, armed, arranged, refused, late>>
  BY DEF IInv, PopStale
<1>2. TypeOK' /\ QueuedAtOwnPriority'
  BY <1>1, PopEffect DEF TypeOK
<1>3. NoLostTask'
  BY <1>1, PopEffect DEF IInv, NoLostTask
<1>4. DrainedInOrder'
  <2>1. \A l \in Levels : l > level => task_queues'[l] = task_queues[l]
    BY <1>1, PopEffect DEF TypeOK, Levels
  <2> QED  BY <1>1, <2>1 DEF IInv, DrainedInOrder
<1>5. WakersOwnQueue' /\ CurrentIsPolled' /\ ArrangedWakes' /\ QuietSleep'
  BY <1>1 DEF IInv, WakersOwnQueue, CurrentIsPolled, ArrangedWakes, QuietSleep
<1> QED  BY <1>2, <1>3, <1>4, <1>5 DEF IInv

\* The start of a poll keeps the invariant.
LEMMA PopTaskIInv == IInv /\ PopTask => IInv'
<1> SUFFICES ASSUME IInv, PopTask
             PROVE  IInv'
  OBVIOUS
<1> DEFINE t == Head(task_queues[level])
<1>1. /\ TypeOK /\ QueuedAtOwnPriority /\ task_queues[level] # <<>> /\ pc = "scan"
      /\ t \in tasks
      /\ task_queues' = [task_queues EXCEPT ![level] = Tail(@)]
      /\ waker_cache' = waker_cache \cup {t}
      /\ task_waker' = IF t \in waker_cache THEN task_waker
                       ELSE [task_waker EXCEPT ![t] = level]
      /\ current' = t /\ refused' = refused \ {t}
      /\ pc' = "poll" /\ arranged' = FALSE
      /\ UNCHANGED <<spawned, tasks, level, interrupts, armed, late>>
  BY DEF IInv, PopTask
<1>2. t \in Tasks /\ Prio[t] = level /\ current = NoTask
  BY <1>1, PopEffect DEF IInv, CurrentIsPolled
<1>3. TypeOK'
  <2>1. task_waker' \in [Tasks -> Levels \cup {NoQueue}]
    BY <1>1, <1>2 DEF TypeOK
  <2>2. pc' \in PcValues
    BY <1>1 DEF PcValues
  <2> QED  BY <1>1, <1>2, <2>1, <2>2, PopEffect DEF TypeOK
<1>4. QueuedAtOwnPriority'
  BY <1>1, PopEffect
<1>5. NoLostTask'
  <2>1. \A u : u # t => (Queued(u)' <=> Queued(u))
    BY <1>1, PopEffect
  <2>2. ASSUME NEW u \in tasks, u # t
        PROVE  Queued(u)' \/ armed'[u] > 0 \/ u \in refused'
    <3>1. u # current
      BY <1>1, <1>2, <2>2, ExecutorAssumption DEF TypeOK
    <3>2. Queued(u) \/ armed[u] > 0 \/ u \in refused
      BY <2>2, <3>1 DEF IInv, NoLostTask
    <3> QED  BY <1>1, <2>1, <2>2, <3>2
  <2> QED  BY <1>1, <2>2 DEF NoLostTask
<1>6. DrainedInOrder'
  <2>1. \A l \in Levels : l > level => task_queues'[l] = task_queues[l]
    BY <1>1, PopEffect DEF TypeOK, Levels
  <2> QED  BY <1>1, <2>1 DEF IInv, DrainedInOrder
<1>7. WakersOwnQueue'
  <2>1. \A u \in Tasks : u # t => task_waker'[u] = task_waker[u]
    BY <1>1, <1>2 DEF TypeOK
  <2>2. task_waker'[t] = Prio[t]
    BY <1>1, <1>2 DEF IInv, WakersOwnQueue, TypeOK
  <2> QED  BY <1>1, <2>1, <2>2 DEF IInv, WakersOwnQueue
<1>8. CurrentIsPolled' /\ ArrangedWakes' /\ QuietSleep'
  BY <1>1, <1>2, ExecutorAssumption DEF CurrentIsPolled, ArrangedWakes, QuietSleep
<1> QED  BY <1>3, <1>4, <1>5, <1>6, <1>7, <1>8 DEF IInv

-----------------------------------------------------------------------------
(* The other steps.                                                          *)

\* Spawning a task keeps the invariant: a registered task is queued.
LEMMA SpawnIInv == ASSUME IInv, NEW t \in Tasks, Spawn(t) PROVE IInv'
<1>1. /\ TypeOK /\ pc = "boot" /\ t \notin spawned /\ spawned' = spawned \cup {t}
      /\ UNCHANGED <<waker_cache, task_waker, pc, level, current, interrupts,
                     armed, arranged, refused, late>>
  BY DEF IInv, Spawn
<1>2. Prio[t] \in Levels /\ task_queues[Prio[t]] \in Seq(Tasks) /\ Len(task_queues[Prio[t]]) \in Nat
  BY <1>1, ExecutorAssumption DEF TypeOK
<1>3. WakersOwnQueue' /\ CurrentIsPolled' /\ QuietSleep' /\ DrainedInOrder' /\ ArrangedWakes'
  BY <1>1 DEF IInv, WakersOwnQueue, CurrentIsPolled, QuietSleep, DrainedInOrder, ArrangedWakes
<1>4. CASE SpawnDropped(t)
  <2>1. TypeOK' /\ QueuedAtOwnPriority' /\ NoLostTask'
    BY <1>1, <1>4 DEF IInv, SpawnDropped, TypeOK, QueuedAtOwnPriority, NoLostTask, Queued
  <2> QED  BY <1>3, <2>1 DEF IInv
<1>5. CASE SpawnPushed(t)
  <2>1. /\ tasks' = tasks \cup {t}
        /\ task_queues'[Prio[t]] = Append(task_queues[Prio[t]], t)
        /\ \A l \in Levels : l # Prio[t] => task_queues'[l] = task_queues[l]
        /\ Len(task_queues[Prio[t]]) < QueueCapacity
    BY <1>2, <1>5 DEF SpawnPushed, IInv, TypeOK
  <2>2. /\ task_queues' \in [Levels -> Seq(Tasks)]
        /\ \A l \in Levels : Len(task_queues'[l]) <= QueueCapacity
    BY <1>1, <1>2, <1>5, <2>1, PushMembers, ExecutorAssumption DEF TypeOK, SpawnPushed
  <2>3. \A u : InQueue(u, task_queues'[Prio[t]]) <=> InQueue(u, task_queues[Prio[t]]) \/ u = t
    BY <1>2, <2>1, PushMembers
  <2>4. QueuedAtOwnPriority'
    <3>1. \A l \in Levels : \A u : InQueue(u, task_queues'[l]) => Prio[u] = l
      BY <2>1, <2>3, OwnPriority DEF IInv
    <3> QED  BY <3>1 DEF QueuedAtOwnPriority, InQueue
  <2>5. \A u : Queued(u) \/ u = t => Queued(u)'
    BY <1>2, <2>1, <2>3 DEF Queued
  <2>6. NoLostTask'
    BY <1>1, <2>1, <2>5 DEF IInv, NoLostTask
  <2>7. TypeOK'
    BY <1>1, <2>1, <2>2 DEF TypeOK
  <2> QED  BY <1>3, <2>4, <2>6, <2>7 DEF IInv
<1> QED  BY <1>4, <1>5 DEF Spawn

\* A step that moves only the executor's program counter and pass keeps what
\* does not depend on them.
LEMMA ControlIInv ==
  ASSUME IInv, UNCHANGED <<spawned, tasks, task_queues, waker_cache, task_waker, current,
                           armed, arranged, refused>>,
         pc # "poll", pc' \in PcValues \ {"poll"}, level' \in Levels, late' \subseteq Levels,
         interrupts' \in BOOLEAN, DrainedInOrder', QuietSleep'
  PROVE  IInv'
<1>1. TypeOK' /\ QueuedAtOwnPriority'
  BY DEF IInv, TypeOK, QueuedAtOwnPriority
<1>2. NoLostTask' /\ WakersOwnQueue' /\ CurrentIsPolled' /\ ArrangedWakes'
  BY DEF IInv, NoLostTask, Queued, WakersOwnQueue, CurrentIsPolled, ArrangedWakes
<1> QED  BY <1>1, <1>2 DEF IInv

\* The loop of run(), of run_ready_tasks and of sleep_if_idle keeps the
\* invariant; in particular a level is left only when its queue is empty.
LEMMA LoopIInv == IInv /\ (Run \/ NextLevel \/ Sleep \/ LoopAgain \/ TimerInterrupt) => IInv'
<1> SUFFICES ASSUME IInv, Run \/ NextLevel \/ Sleep \/ LoopAgain \/ TimerInterrupt
             PROVE  IInv'
  OBVIOUS
<1>1. TypeOK /\ DrainedInOrder /\ QuietSleep
  BY DEF IInv
<1>2. CASE Run \/ LoopAgain
  <2>1. DrainedInOrder' /\ QuietSleep'
    BY <1>2 DEF Run, LoopAgain, StartPass, DrainedInOrder, QuietSleep, Levels
  <2> QED  BY <1>1, <1>2, <2>1, ControlIInv DEF Run, LoopAgain, StartPass, TypeOK, PcValues, Levels
<1>3. CASE NextLevel
  <2>1. level' \in Levels /\ pc' \in {"scan", "sleep"} /\ pc = "scan"
    BY <1>1, <1>3 DEF NextLevel, TypeOK, Levels
  <2>2. DrainedInOrder'
    <3>1. ASSUME NEW l \in Levels, l > level', pc' = "scan", task_queues[l] # <<>>
          PROVE  l \in late
      <4>1. level \in Int /\ l \in Int /\ level' = level - 1 /\ task_queues[level] = <<>>
        BY <1>1, <1>3, <3>1 DEF NextLevel, TypeOK, Levels
      <4>2. l > level
        BY <3>1, <4>1
      <4> QED  BY <1>1, <2>1, <3>1, <4>2 DEF DrainedInOrder
    <3>2. UNCHANGED <<task_queues, late>>
      BY <1>3 DEF NextLevel
    <3> QED  BY <2>1, <3>1, <3>2 DEF DrainedInOrder
  <2>3. QuietSleep'
    BY <2>1 DEF QuietSleep
  <2> QED  BY <1>1, <1>3, <2>1, <2>2, <2>3, ControlIInv DEF NextLevel, TypeOK, PcValues
<1>4. CASE Sleep \/ TimerInterrupt
  <2>1. UNCHANGED <<spawned, tasks, task_queues, waker_cache, task_waker, level, current,
                    armed, arranged, refused, late>>
    BY <1>4 DEF Sleep, DisableInterrupts, CheckQueues, EnableAndHalt, EnableInterrupts,
                TimerInterrupt
  <2>2. AllEmpty' <=> AllEmpty
    BY <2>1 DEF AllEmpty
  <2>3. ASSUME pc \notin {"scan", "poll"}, pc' \in PcValues \ {"scan", "poll"},
               interrupts' \in BOOLEAN, QuietSleep'
        PROVE  IInv'
    <3>1. DrainedInOrder'
      BY <2>3 DEF DrainedInOrder
    <3> QED  BY <1>1, <2>1, <2>3, <3>1, ControlIInv DEF TypeOK
  <2>4. CASE DisableInterrupts
    BY <2>3, <2>4 DEF DisableInterrupts, QuietSleep, PcValues
  <2>5. CASE CheckQueues
    BY <1>1, <2>2, <2>3, <2>5 DEF CheckQueues, QuietSleep, PcValues, TypeOK
  <2>6. CASE EnableAndHalt
    BY <1>1, <2>2, <2>3, <2>6 DEF EnableAndHalt, QuietSleep, PcValues
  <2>7. CASE EnableInterrupts
    BY <2>3, <2>7 DEF EnableInterrupts, QuietSleep, PcValues
  <2>8. CASE TimerInterrupt
    BY <1>1, <2>3, <2>8 DEF TimerInterrupt, EndHalt, QuietSleep, PcValues, TypeOK
  <2> QED  BY <1>4, <2>4, <2>5, <2>6, <2>7, <2>8 DEF Sleep
<1> QED  BY <1>2, <1>3, <1>4

\* A task that hands out its waker, or takes it back, keeps the invariant.
LEMMA RegisterIInv == IInv /\ (PollRegister \/ PollReplace \/ PollUnregister) => IInv'
<1> SUFFICES ASSUME IInv, PollRegister \/ PollReplace \/ PollUnregister
             PROVE  IInv'
  OBVIOUS
<1>1. TypeOK /\ current \in Tasks /\ current # NoTask /\ current \in waker_cache
  BY ExecutorAssumption DEF IInv, PollRegister, PollReplace, PollUnregister, TypeOK, CurrentIsPolled
<1>2. pc = "poll" /\ UNCHANGED <<execVars, refused, late>>
  BY DEF PollRegister, PollReplace, PollUnregister
<1>3. /\ armed' \in [Tasks -> 0..MaxClones]
      /\ \A u \in Tasks : u # current => armed'[u] = armed[u]
      /\ arranged' \in BOOLEAN
      /\ arranged' => armed'[current] > 0
  <2>1. armed[current] \in 0..MaxClones /\ MaxClones \in Nat
    BY <1>1, ExecutorAssumption DEF TypeOK
  <2>2. CASE PollRegister
    BY <1>1, <2>1, <2>2 DEF PollRegister, TypeOK
  <2>3. CASE PollReplace
    BY <1>1, <2>3 DEF PollReplace, TypeOK
  <2>4. CASE PollUnregister
    <3>1. armed' = [armed EXCEPT ![current] = armed[current] - 1] /\ armed[current] > 0
      BY <2>4 DEF PollUnregister
    <3>2. armed' \in [Tasks -> 0..MaxClones] /\ \A u \in Tasks : u # current => armed'[u] = armed[u]
      BY <1>1, <2>1, <3>1 DEF TypeOK
    <3>3. arranged' = FALSE
      BY <2>4 DEF PollUnregister
    <3> QED  BY <3>2, <3>3
  <2> QED  BY <2>2, <2>3, <2>4
<1>4. TypeOK' /\ QueuedAtOwnPriority'
  BY <1>1, <1>2, <1>3 DEF IInv, TypeOK, QueuedAtOwnPriority, execVars
<1>5. NoLostTask'
  <2>1. \A u \in tasks \ {current} : Queued(u) \/ armed[u] > 0 \/ u \in refused
    BY DEF IInv, NoLostTask
  <2> QED  BY <1>1, <1>2, <1>3, <2>1 DEF NoLostTask, Queued, TypeOK, execVars
<1>6. WakersOwnQueue'
  BY <1>1, <1>2, <1>3 DEF IInv, WakersOwnQueue, execVars
<1>7. ArrangedWakes'
  BY <1>2, <1>3 DEF ArrangedWakes, WillRun, execVars
<1>8. CurrentIsPolled' /\ DrainedInOrder' /\ QuietSleep'
  BY <1>2 DEF IInv, CurrentIsPolled, DrainedInOrder, QuietSleep, execVars
<1> QED  BY <1>4, <1>5, <1>6, <1>7, <1>8 DEF IInv

\* The end of a poll keeps the invariant: the task is gone, or what it has
\* arranged will run it again.
LEMMA PollReturnIInv == IInv /\ PollReturn => IInv'
<1> SUFFICES ASSUME IInv, PollReturn
             PROVE  IInv'
  OBVIOUS
<1>1. /\ TypeOK /\ current \in tasks /\ pc = "poll" /\ pc' = "scan" /\ current' = NoTask
      /\ UNCHANGED <<spawned, task_queues, task_waker, level, interrupts, armed, arranged,
                     refused, late>>
  BY DEF IInv, PollReturn, PollReady, PollPending, TypeOK, CurrentIsPolled
<1>2. tasks' \subseteq tasks /\ waker_cache' \subseteq tasks' /\ waker_cache' \subseteq waker_cache
  BY <1>1 DEF PollReturn, PollReady, PollPending, TypeOK
<1>3. TypeOK' /\ QueuedAtOwnPriority' /\ DrainedInOrder'
  BY <1>1, <1>2 DEF IInv, TypeOK, PcValues, QueuedAtOwnPriority, DrainedInOrder
<1>4. NoLostTask'
  <2>1. CASE PollReady
    <3>1. tasks' = tasks \ {current}
      BY <2>1 DEF PollReady
    <3> QED  BY <1>1, <3>1 DEF IInv, NoLostTask, Queued
  <2>2. CASE PollPending
    <3>1. WillRun(current) /\ tasks' = tasks
      BY <1>1, <2>2 DEF IInv, ArrangedWakes, PollPending
    <3> QED  BY <1>1, <3>1 DEF IInv, NoLostTask, WillRun, Queued
  <2> QED  BY <2>1, <2>2 DEF PollReturn
<1>5. WakersOwnQueue'
  BY <1>1, <1>2 DEF IInv, WakersOwnQueue
<1>6. CurrentIsPolled' /\ ArrangedWakes' /\ QuietSleep'
  BY <1>1 DEF CurrentIsPolled, ArrangedWakes, QuietSleep
<1> QED  BY <1>3, <1>4, <1>5, <1>6 DEF IInv

-----------------------------------------------------------------------------
(* The theorems.                                                             *)

\* Every step keeps the invariant.
LEMMA NextIInv == IInv /\ [Next]_vars => IInv'
<1> SUFFICES ASSUME IInv, [Next]_vars
             PROVE  IInv'
  OBVIOUS
<1>1. ASSUME NEW t \in Tasks, PollWake(t)
      PROVE  IInv'
  BY <1>1, ConsumeIInv DEF PollWake, EndHalt
<1>2. ASSUME NEW t \in Tasks, DeviceInterrupt(t)
      PROVE  IInv'
  BY <1>2, ConsumeIInv DEF DeviceInterrupt
<1>3. ASSUME NEW t \in Tasks, Spawn(t)
      PROVE  IInv'
  BY <1>3, SpawnIInv
<1>4. CASE UNCHANGED vars
  BY <1>4 DEF vars, IInv, TypeOK, QueuedAtOwnPriority, NoLostTask, DrainedInOrder, WakersOwnQueue,
              CurrentIsPolled, ArrangedWakes, QuietSleep, WillRun, Queued, AllEmpty
<1> QED
  BY <1>1, <1>2, <1>3, <1>4, PopStaleIInv, PopTaskIInv, LoopIInv, PollYieldIInv, RegisterIInv,
     PollReturnIInv
     DEF Next, Kernel

\* The inductive invariant holds in every reachable state.
THEOREM Invariance == Spec => []IInv
BY InitIInv, NextIInv, PTL DEF Spec

\* The executor's state has its types and no run queue exceeds its capacity.
THEOREM TypeCorrect == Spec => []TypeOK
<1>1. IInv => TypeOK
  BY DEF IInv
<1> QED  BY <1>1, Invariance, PTL

\* No registered task is forgotten by run_ready_tasks and wake_by_ref, in any
\* interleaving with interrupts: it is queued, some event source can still
\* wake it, or a full queue refused its wake.
THEOREM TasksAreNotLost == Spec => []NoLostTask
<1>1. IInv => NoLostTask
  BY DEF IInv
<1> QED  BY <1>1, Invariance, PTL

\* sleep_if_idle never halts the CPU with a ready task.
THEOREM HaltsOnlyWhenIdle == Spec => []NoHaltWithReadyTask
<1>1. IInv => NoHaltWithReadyTask
  BY DEF IInv, QuietSleep, NoHaltWithReadyTask
<1> QED  BY <1>1, Invariance, PTL

\* A waker always pushes to the run queue of its task's priority.
THEOREM WakersKeepPriority == Spec => []QueuedAtOwnPriority
<1>1. IInv => QueuedAtOwnPriority
  BY DEF IInv
<1> QED  BY <1>1, Invariance, PTL

\* run_ready_tasks leaves a level only when its queue is empty.
THEOREM LevelsAreDrainedInOrder == Spec => []DrainedInOrder
<1>1. IInv => DrainedInOrder
  BY DEF IInv
<1> QED  BY <1>1, Invariance, PTL

-----------------------------------------------------------------------------
(* The executor implements TaskSched.                                        *)

Ready == {t \in tasks : Queued(t)}

\* A step that leaves the registered tasks, the polled task and the contents of
\* the queues alone is invisible to the tasks.
LEMMA InvisibleStep ==
  ASSUME UNCHANGED <<spawned, tasks, task_queues, current>>
  PROVE  UNCHANGED <<spawned, tasks, Ready, current>>
BY DEF Ready, Queued

\* A wake makes a live task ready, or changes nothing the tasks can see.
LEMMA WakeRefines ==
  ASSUME IInv, NEW t \in Tasks, task_waker[t] = Prio[t], Wake(t),
         UNCHANGED <<spawned, tasks, current>>
  PROVE  [Sched!Next]_<<spawned, tasks, Ready, current>>
<1>1. Prio[t] \in Levels /\ TypeOK /\ QueuedAtOwnPriority
  BY ExecutorAssumption DEF IInv
<1>2. \A u : Queued(u) => Queued(u)'
  BY <1>1, WakeEffect DEF Queued
<1>3. \A u : Queued(u)' => Queued(u) \/ u = t
  BY <1>1, WakeEffect DEF Queued
<1>4. CASE t \in tasks /\ Queued(t)'
  <2>1. Ready' = Ready \cup {t}
    BY <1>2, <1>3, <1>4 DEF Ready
  <2> QED  BY <1>4, <2>1 DEF Sched!Next, Sched!Wake, Ready
<1>5. CASE ~(t \in tasks /\ Queued(t)')
  <2>1. Ready' = Ready
    BY <1>2, <1>3, <1>5 DEF Ready
  <2> QED  BY <2>1
<1> QED  BY <1>4, <1>5

\* A spawn is a spawn of the abstract scheduler.
LEMMA SpawnRefines ==
  ASSUME IInv, NEW t \in Tasks, Spawn(t)
  PROVE  Sched!Spawn(t)
<1>1. /\ t \notin spawned /\ spawned' = spawned \cup {t} /\ UNCHANGED current
      /\ TypeOK /\ Prio[t] \in Levels /\ task_queues[Prio[t]] \in Seq(Tasks)
  BY ExecutorAssumption DEF Spawn, IInv, TypeOK
<1>2. CASE SpawnPushed(t)
  <2>1. /\ tasks' = tasks \cup {t}
        /\ task_queues'[Prio[t]] = Append(task_queues[Prio[t]], t)
        /\ \A l \in Levels : l # Prio[t] => task_queues'[l] = task_queues[l]
    BY <1>1, <1>2 DEF SpawnPushed, TypeOK
  <2>2. \A u : Queued(u)' <=> Queued(u) \/ u = t
    <3>1. \A u : InQueue(u, task_queues'[Prio[t]]) <=> InQueue(u, task_queues[Prio[t]]) \/ u = t
      BY <1>1, <2>1, PushMembers
    <3> QED  BY <1>1, <2>1, <3>1 DEF Queued
  <2>3. Ready' = Ready \cup {t}
    BY <2>1, <2>2 DEF Ready
  <2> QED  BY <1>1, <2>1, <2>3 DEF Sched!Spawn, Ready
<1>3. CASE SpawnDropped(t)
  <2>1. UNCHANGED <<tasks, Ready>>
    BY <1>3 DEF SpawnDropped, Ready, Queued
  <2> QED  BY <1>1, <2>1 DEF Sched!Spawn, Ready
<1> QED  BY <1>2, <1>3 DEF Spawn

\* A pop polls a ready task, or skips an id that no task has any more.
LEMMA PopRefines ==
  ASSUME IInv, PopTask \/ PopStale
  PROVE  [Sched!Next]_<<spawned, tasks, Ready, current>>
<1> DEFINE t == Head(task_queues[level])
<1>1. /\ TypeOK /\ QueuedAtOwnPriority /\ task_queues[level] # <<>> /\ pc = "scan"
      /\ task_queues' = [task_queues EXCEPT ![level] = Tail(@)]
      /\ UNCHANGED <<spawned, tasks>>
  BY DEF IInv, PopTask, PopStale
<1>2. t \in Tasks /\ Queued(t) /\ \A u : u # t => (Queued(u)' <=> Queued(u))
  BY <1>1, PopEffect
<1>3. CASE PopTask
  <2>1. t \in tasks /\ current' = t /\ current = NoTask
    BY <1>1, <1>3 DEF PopTask, IInv, CurrentIsPolled
  <2>2. Ready' \in {Ready, Ready \ {t}} /\ t \in Ready
    BY <1>1, <1>2, <2>1 DEF Ready
  <2>3. Sched!Poll(t)
    BY <1>1, <2>1, <2>2 DEF Sched!Poll, Ready
  <2> QED  BY <1>2, <2>3 DEF Sched!Next
<1>4. CASE PopStale
  <2>1. t \notin tasks /\ UNCHANGED current
    BY <1>4 DEF PopStale
  <2>2. Ready' = Ready
    BY <1>1, <1>2, <2>1 DEF Ready
  <2> QED  BY <1>1, <2>1, <2>2
<1> QED  BY <1>3, <1>4

\* A poll ends by suspending or finishing its task.
LEMMA PollReturnRefines ==
  ASSUME IInv, PollReturn
  PROVE  Sched!Suspend \/ Sched!Finish
<1>1. current # NoTask /\ current' = NoTask /\ UNCHANGED <<spawned, task_queues>>
  BY DEF IInv, PollReturn, PollReady, PollPending, CurrentIsPolled
<1>2. CASE PollReady
  <2>1. tasks' = tasks \ {current}
    BY <1>2 DEF PollReady
  <2>2. Ready' = Ready \ {current}
    BY <1>1, <2>1 DEF Ready, Queued
  <2> QED  BY <1>1, <2>1, <2>2 DEF Sched!Finish, Ready
<1>3. CASE PollPending
  <2>1. UNCHANGED <<tasks, Ready>>
    BY <1>1, <1>3 DEF PollPending, Ready, Queued
  <2> QED  BY <1>1, <2>1 DEF Sched!Suspend, Ready
<1> QED  BY <1>2, <1>3 DEF PollReturn

\* Every step of the executor is a step of the abstract scheduler or stutters.
LEMMA NextRefines ==
  IInv /\ [Next]_vars => [Sched!Next]_<<spawned, tasks, Ready, current>>
<1> SUFFICES ASSUME IInv, [Next]_vars
             PROVE  [Sched!Next]_<<spawned, tasks, Ready, current>>
  OBVIOUS
<1>1. ASSUME NEW t \in Tasks, PollWake(t) \/ DeviceInterrupt(t)
      PROVE  [Sched!Next]_<<spawned, tasks, Ready, current>>
  BY <1>1, WakeRefines DEF PollWake, DeviceInterrupt, IInv, WakersOwnQueue
<1>2. ASSUME PollYield
      PROVE  [Sched!Next]_<<spawned, tasks, Ready, current>>
  <2>1. current \in Tasks /\ current \in waker_cache
    BY <1>2, ExecutorAssumption DEF PollYield, IInv, TypeOK, CurrentIsPolled
  <2> QED  BY <1>2, <2>1, WakeRefines DEF PollYield, IInv, WakersOwnQueue
<1>3. ASSUME NEW t \in Tasks, Spawn(t)
      PROVE  [Sched!Next]_<<spawned, tasks, Ready, current>>
  BY <1>3, SpawnRefines DEF Sched!Next
<1>4. CASE PollReturn
  BY <1>4, PollReturnRefines DEF Sched!Next
<1>5. CASE PopStale \/ PopTask
  BY <1>5, PopRefines
<1>6. CASE Run \/ NextLevel \/ Sleep \/ LoopAgain \/ TimerInterrupt
           \/ PollRegister \/ PollReplace \/ PollUnregister
  <2>1. UNCHANGED <<spawned, tasks, task_queues, current>>
    BY <1>6 DEF Run, NextLevel, Sleep, LoopAgain, TimerInterrupt, PollRegister, PollReplace,
                PollUnregister, DisableInterrupts, CheckQueues, EnableAndHalt, EnableInterrupts,
                execVars
  <2> QED  BY <2>1, InvisibleStep
<1>7. CASE UNCHANGED vars
  BY <1>7, InvisibleStep DEF vars
<1> QED
  BY <1>1, <1>2, <1>3, <1>4, <1>5, <1>6, <1>7 DEF Next, Kernel

\* The executor, with its queues, levels, wakers and interrupts, implements the
\* scheduler that its tasks rely on.
THEOREM ExecutorRefinesSched == Spec => ImplementsSched
<1>1. Init => Sched!Init
  BY DEF Init, Sched!Init
<1>2. IInv /\ [Next]_vars =>
        [Sched!Next]_<<spawned, tasks, {t \in tasks : Queued(t)}, current>>
  BY NextRefines DEF Ready
<1> QED  BY <1>1, <1>2, Invariance, PTL DEF Spec, ImplementsSched, Sched!Spec
=============================================================================
