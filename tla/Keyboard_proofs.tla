--------------------------- MODULE Keyboard_proofs ---------------------------
(* Proofs about Keyboard, for any tasks, scancodes and queue capacities.     *)
EXTENDS Keyboard, Executor_proofs, SequenceTheorems

-----------------------------------------------------------------------------
(* The keyboard's tasks and its interrupt are tasks and interrupts of the    *)
(* executor.                                                                 *)

\* A step of the keyboard's composition is a step of the executor, or changes
\* nothing of it: every operation of a task keeps the contract of Future::poll.
LEMMA StepOfExecutor == [KNext]_kvars => [Next]_vars
<1> SUFFICES ASSUME [KNext]_kvars
             PROVE  [Next]_vars
  OBVIOUS
<1>1. CASE UNCHANGED kvars
  BY <1>1 DEF kvars
<1>2. ASSUME NEW t \in Tasks, Spawn(t)
      PROVE  [Next]_vars
  BY <1>2 DEF Next
<1>3. CASE Kernel \/ TimerInterrupt
  BY <1>3 DEF Next
<1>4. ASSUME NEW t \in Streams, StreamStep(t)
      PROVE  [Next]_vars
  BY <1>4 DEF StreamStep, StreamNew, StreamFast, StreamRegister, StreamRecheckFound,
              StreamPending, StreamTake, Next, PollReturn
<1>5. ASSUME NEW t \in Tasks, TerminalStep(t) \/ LoopStep(t)
      PROVE  [Next]_vars
  BY <1>5 DEF TerminalStep, LoopStep, TerminalGet, TerminalYield, TerminalPending, LoopYield,
              Next, PollReturn
<1>6. ASSUME NEW c \in Codes, KeyboardInterrupt(c)
      PROVE  [Next]_vars
  <2>1. CASE \E t \in Streams : DeviceInterrupt(t)
    BY <2>1, KeyboardAssumption DEF Next
  <2>2. CASE /\ EndHalt
             /\ UNCHANGED <<spawned, tasks, task_queues, waker_cache, task_waker, level,
                            current, interrupts, armed, arranged, refused, late>>
    <3>1. CASE pc = "halted"
      BY <1>6, <2>2, <3>1 DEF KeyboardInterrupt, TimerInterrupt, Next
    <3>2. CASE pc # "halted"
      BY <2>2, <3>2 DEF EndHalt, vars
    <3> QED  BY <3>1, <3>2
  <2> QED  BY <1>6, <2>1, <2>2 DEF KeyboardInterrupt, ScancodeAccepted, ScancodeLost, WakeReader
<1> QED
  BY <1>1, <1>2, <1>3, <1>4, <1>5, <1>6, KeyboardAssumption DEF KNext, TaskStep

\* The composition implements the executor with its unspecified tasks.
THEOREM KeyboardRefinesExecutor == KSpec => ImplementsExecutor
<1>1. KInit => Init
  BY DEF KInit
<1> QED  BY <1>1, StepOfExecutor, PTL DEF KSpec, ImplementsExecutor, Spec

\* What is proved of the executor holds of the composition.
LEMMA ExecutorInvariance == KSpec => []IInv
BY KeyboardRefinesExecutor, Invariance, PTL DEF ImplementsExecutor

-----------------------------------------------------------------------------
(* The scancode queue.                                                       *)

KInv ==
  /\ KTypeOK
  /\ DeliveredOnceInOrder
  /\ NoLostKeyWake

\* The history of the queue is unchanged, or the queue is created.
QueueCreated ==
  /\ scancodes' \in {scancodes, IF scancodes = Uninit THEN <<>> ELSE scancodes}
  /\ UNCHANGED <<accepted, consumed>>

QueuePopped == HasScancode /\ Pop /\ UNCHANGED accepted

QueuePushed(c) ==
  /\ HasRoom
  /\ scancodes' = Append(scancodes, c)
  /\ accepted' = Append(accepted, c)
  /\ UNCHANGED consumed

\* Whatever the step, the queue is created, popped when it holds a scancode, or
\* pushed to when it has room, and the scancode pushed has just been typed.
LEMMA QueueSteps ==
  ASSUME KTypeOK, [KNext]_kvars
  PROVE  /\ pressed \subseteq pressed' /\ pressed' \subseteq Codes
         /\ spc' \in [Tasks -> {"start", "fast", "register", "recheck", "take", "yield", "pending"}]
         /\ QueueCreated \/ QueuePopped \/ \E c \in pressed' : QueuePushed(c)
<1> DEFINE Effect == /\ pressed \subseteq pressed' /\ pressed' \subseteq Codes
                     /\ spc' \in [Tasks -> {"start", "fast", "register", "recheck", "take", "yield", "pending"}]
                     /\ QueueCreated \/ QueuePopped \/ \E c \in pressed' : QueuePushed(c)
<1>1. CASE UNCHANGED keyVars
  BY <1>1 DEF keyVars, KTypeOK, QueueCreated
<1>2. ASSUME NEW t \in Streams, StreamStep(t)
      PROVE  Effect
  <2>1. t \in Tasks
    BY KeyboardAssumption
  <2>2. CASE StreamNew(t)
    BY <2>1, <2>2 DEF StreamNew, Goto, KTypeOK, QueueCreated
  <2>3. CASE StreamFast(t)
    BY <2>1, <2>3 DEF StreamFast, Goto, KTypeOK, QueueCreated, QueuePopped
  <2>4. CASE StreamRegister(t) \/ StreamPending(t) \/ StreamTake(t)
    BY <2>1, <2>4 DEF StreamRegister, StreamPending, StreamTake, Goto, KTypeOK, QueueCreated
  <2>5. CASE StreamRecheckFound(t)
    BY <2>1, <2>5 DEF StreamRecheckFound, Goto, KTypeOK, QueuePopped
  <2> QED  BY <1>2, <2>2, <2>3, <2>4, <2>5 DEF StreamStep
<1>3. ASSUME NEW t \in Tasks, TerminalStep(t) \/ LoopStep(t)
      PROVE  Effect
  <2>1. CASE TerminalGet(t)
    BY <2>1 DEF TerminalGet, Goto, KTypeOK, QueueCreated, QueuePopped
  <2>2. CASE TerminalYield(t) \/ TerminalPending(t) \/ LoopYield(t)
    BY <2>2 DEF TerminalYield, TerminalPending, LoopYield, Goto, KTypeOK, QueueCreated
  <2> QED  BY <1>3, <2>1, <2>2 DEF TerminalStep, LoopStep
<1>4. ASSUME NEW c \in Codes, KeyboardInterrupt(c)
      PROVE  Effect
  BY <1>4 DEF KeyboardInterrupt, ScancodeAccepted, ScancodeLost, KTypeOK, QueueCreated, QueuePushed
<1> QED
  BY <1>1, <1>2, <1>3, <1>4, KeyboardAssumption DEF KNext, TaskStep, kvars

\* The keyboard's types are kept: the queue takes a scancode only when it has room.
LEMMA KTypeStep == ASSUME KTypeOK, [KNext]_kvars PROVE KTypeOK'
<1>1. /\ pressed \subseteq pressed' /\ pressed' \subseteq Codes
      /\ spc' \in [Tasks -> {"start", "fast", "register", "recheck", "take", "yield", "pending"}]
  BY QueueSteps
<1>2. /\ accepted \in Seq(pressed') /\ consumed \in Seq(pressed')
      /\ scancodes = Uninit \/ scancodes \in Seq(pressed')
  BY <1>1, SeqMonotonic DEF KTypeOK
<1>3. CASE QueueCreated
  <2>1. <<>> \in Seq(pressed') /\ Len(<<>>) <= ScancodeCapacity
    BY KeyboardAssumption
  <2> QED  BY <1>1, <1>2, <1>3, <2>1 DEF QueueCreated, KTypeOK
<1>4. CASE QueuePopped
  <2>1. scancodes \in Seq(pressed') /\ scancodes # <<>> /\ Len(scancodes) <= ScancodeCapacity
    BY <1>2, <1>4 DEF QueuePopped, HasScancode, KTypeOK
  <2>2. Tail(scancodes) \in Seq(pressed') /\ Len(Tail(scancodes)) = Len(scancodes) - 1
        /\ Head(scancodes) \in pressed' /\ Len(scancodes) \in Nat
    BY <2>1
  <2>3. Len(Tail(scancodes)) <= ScancodeCapacity
    BY <2>1, <2>2, KeyboardAssumption
  <2>4. Append(consumed, Head(scancodes)) \in Seq(pressed')
    BY <1>2, <2>2
  <2> QED  BY <1>1, <1>2, <1>4, <2>2, <2>3, <2>4 DEF QueuePopped, Pop, KTypeOK
<1>5. ASSUME NEW c \in pressed', QueuePushed(c)
      PROVE  KTypeOK'
  <2>1. scancodes \in Seq(pressed') /\ Len(scancodes) < ScancodeCapacity
    BY <1>2, <1>5 DEF QueuePushed, HasRoom
  <2>2. Append(scancodes, c) \in Seq(pressed') /\ Len(Append(scancodes, c)) = Len(scancodes) + 1
        /\ Append(accepted, c) \in Seq(pressed') /\ Len(scancodes) \in Nat
    BY <1>2, <2>1
  <2>3. Len(Append(scancodes, c)) <= ScancodeCapacity
    BY <2>1, <2>2, KeyboardAssumption
  <2> QED  BY <1>1, <1>2, <1>5, <2>2, <2>3 DEF QueuePushed, KTypeOK
<1> QED  BY <1>3, <1>4, <1>5, QueueSteps

\* A pop moves the oldest scancode from the queue to the end of what was consumed.
LEMMA MoveHead ==
  ASSUME NEW S, NEW s \in Seq(S), NEW q \in Seq(S), q # <<>>
  PROVE  Append(s, Head(q)) \o Tail(q) = s \o q
<1>1. /\ Head(q) \in S /\ Head(q) = q[1] /\ Tail(q) \in Seq(S) /\ Len(q) \in Nat \ {0}
      /\ Len(Tail(q)) = Len(q) - 1
      /\ \A i \in 1..Len(Tail(q)) : Tail(q)[i] = q[i + 1]
  BY HeadTailProperties
<1>2. PICK a : a = Append(s, Head(q))
  OBVIOUS
<1>3. /\ a \in Seq(S) /\ Len(a) = Len(s) + 1 /\ Len(s) \in Nat
      /\ \A i \in 1..Len(s) : a[i] = s[i]
      /\ a[Len(s) + 1] = q[1]
  BY <1>1, <1>2, AppendProperties
<1>4. PICK t : t = Tail(q)
  OBVIOUS
<1>5. /\ t \in Seq(S) /\ Len(t) = Len(q) - 1 /\ \A i \in 1..Len(t) : t[i] = q[i + 1]
  BY <1>1, <1>4
<1>6. PICK u : u = a \o t
  OBVIOUS
<1>7. PICK v : v = s \o q
  OBVIOUS
<1>8. /\ u \in Seq(S) /\ Len(u) = Len(a) + Len(t)
      /\ \A i \in 1..(Len(a) + Len(t)) : u[i] = IF i <= Len(a) THEN a[i] ELSE t[i - Len(a)]
  BY <1>3, <1>5, <1>6, ConcatProperties
<1>9. /\ v \in Seq(S) /\ Len(v) = Len(s) + Len(q)
      /\ \A i \in 1..(Len(s) + Len(q)) : v[i] = IF i <= Len(s) THEN s[i] ELSE q[i - Len(s)]
  BY <1>7, ConcatProperties
<1>10. Len(a) + Len(t) = Len(s) + Len(q)
  BY <1>1, <1>3, <1>5
<1>11. ASSUME NEW i \in 1..(Len(s) + Len(q))
       PROVE  u[i] = v[i]
  <2>1. CASE i <= Len(s)
    <3>1. i \in 1..Len(s) /\ i <= Len(a) /\ i \in 1..(Len(a) + Len(t))
      BY <1>1, <1>3, <1>10, <2>1
    <3> QED  BY <1>3, <1>8, <1>9, <2>1, <3>1
  <2>2. CASE i = Len(s) + 1
    BY <1>1, <1>3, <1>8, <1>9, <1>10, <2>2
  <2>3. CASE i > Len(s) + 1
    <3>1. i - Len(a) \in 1..Len(t) /\ i - Len(a) + 1 = i - Len(s)
      BY <1>1, <1>3, <1>5, <2>3
    <3>2. t[i - Len(a)] = q[i - Len(s)]
      BY <1>5, <3>1
    <3>3. ~(i <= Len(a)) /\ ~(i <= Len(s))
      BY <1>3, <2>3
    <3> QED  BY <1>8, <1>9, <1>10, <3>2, <3>3
  <2> QED  BY <1>1, <1>3, <2>1, <2>2, <2>3
<1>12. u = v
  BY <1>8, <1>9, <1>10, <1>11, SeqEqual
<1> QED  BY <1>2, <1>4, <1>6, <1>7, <1>12

\* What was handed out, followed by what is still queued.
Joined(s, q) == s \o q

\* Appending to the queue is appending to the history.
LEMMA AppendLast ==
  ASSUME NEW s \in Seq(Codes), NEW q \in Seq(Codes), NEW c \in Codes
  PROVE  Append(Joined(s, q), c) = Joined(s, Append(q, c))
<1>1. s \o q \in Seq(Codes) /\ <<c>> \in Seq(Codes)
  BY ConcatProperties
<1>2. (s \o q) \o <<c>> = s \o (q \o <<c>>)
  BY <1>1, ConcatAssociative
<1>3. Append(s \o q, c) = (s \o q) \o <<c>> /\ Append(q, c) = q \o <<c>>
  BY <1>1, AppendIsConcat
<1> QED  BY <1>2, <1>3, Zenon DEF Joined

\* What was consumed and what is queued stay what was accepted, in its order.
LEMMA DeliveryStep ==
  ASSUME KTypeOK, DeliveredOnceInOrder, [KNext]_kvars
  PROVE  DeliveredOnceInOrder'
<1>1. pressed \subseteq Codes /\ pressed' \subseteq Codes
  BY QueueSteps DEF KTypeOK
<1>2. /\ accepted \in Seq(Codes) /\ consumed \in Seq(Codes)
      /\ scancodes = Uninit \/ scancodes \in Seq(Codes)
  BY <1>1, SeqMonotonic DEF KTypeOK
<1>3. \A s \in Seq(Codes) : s # Uninit
  BY KeyboardAssumption
<1>4. CASE QueueCreated
  <2>1. <<>> \in Seq(Codes)
    OBVIOUS
  <2>2. <<>> # Uninit
    BY <1>3, <2>1, Zenon
  <2> QED  BY <1>4, <2>2 DEF QueueCreated, DeliveredOnceInOrder
<1>5. CASE QueuePopped
  <2>1. scancodes \in Seq(Codes) /\ scancodes # <<>> /\ scancodes # Uninit
    BY <1>2, <1>5 DEF QueuePopped, HasScancode
  <2>2. Append(consumed, Head(scancodes)) \o Tail(scancodes) = consumed \o scancodes
    <3>1. \A s, q \in Seq(Codes) : q # <<>> => Append(s, Head(q)) \o Tail(q) = s \o q
      BY MoveHead, Zenon
    <3> QED  BY <1>2, <2>1, <3>1, Zenon
  <2>3. Tail(scancodes) \in Seq(Codes)
    BY <2>1
  <2>4. scancodes' # Uninit
    BY <1>3, <1>5, <2>3, Zenon DEF QueuePopped, Pop
  <2> QED  BY <1>5, <2>1, <2>2, <2>4 DEF QueuePopped, Pop, DeliveredOnceInOrder
<1>6. ASSUME NEW c \in Codes, QueuePushed(c)
      PROVE  DeliveredOnceInOrder'
  <2>1. scancodes \in Seq(Codes) /\ scancodes # Uninit
    BY <1>2, <1>6 DEF QueuePushed, HasRoom
  <2>2. /\ accepted = Joined(consumed, scancodes)
        /\ scancodes' = Append(scancodes, c) /\ accepted' = Append(accepted, c) /\ consumed' = consumed
    BY <1>6, <2>1 DEF QueuePushed, DeliveredOnceInOrder, Joined
  <2>3. accepted' = Joined(consumed, scancodes')
    BY <1>2, <2>1, <2>2, AppendLast
  <2>4. Append(scancodes, c) \in Seq(Codes)
    BY <2>1
  <2>5. scancodes' # Uninit
    BY <1>3, <2>2, <2>4
  <2> QED  BY <2>2, <2>3, <2>5 DEF DeliveredOnceInOrder, Joined
<1> QED  BY <1>1, <1>4, <1>5, <1>6, QueueSteps

-----------------------------------------------------------------------------
(* The stream task's wake.                                                   *)

\* The executor's own steps take no task off its queue without polling it.
LEMMA KernelKeepsWaiting ==
  ASSUME IInv, NEW t \in Tasks, t \in tasks', current # t => Queued(t) \/ t \in refused \/ t \notin tasks,
         current' # t,
         Kernel \/ TimerInterrupt \/ \E u \in Tasks : Spawn(u)
  PROVE  Queued(t)' \/ t \in refused'
<1>1. TypeOK /\ QueuedAtOwnPriority /\ CurrentIsPolled
  BY DEF IInv
<1>2. ASSUME NEW u \in Tasks, Spawn(u)
      PROVE  Queued(t)' \/ t \in refused'
  <2>1. Prio[u] \in Levels /\ task_queues[Prio[u]] \in Seq(Tasks)
    BY <1>1, ExecutorAssumption DEF TypeOK
  <2>2. current' = current /\ refused' = refused
    BY <1>2 DEF Spawn
  <2>3. CASE SpawnPushed(u)
    <3>1. /\ tasks' = tasks \cup {u}
          /\ task_queues'[Prio[u]] = Append(task_queues[Prio[u]], u)
          /\ \A l \in Levels : l # Prio[u] => task_queues'[l] = task_queues[l]
      BY <1>1, <2>1, <2>3 DEF SpawnPushed, TypeOK
    <3>2. InQueue(u, task_queues'[Prio[u]])
          /\ (InQueue(t, task_queues[Prio[u]]) => InQueue(t, task_queues'[Prio[u]]))
      BY <2>1, <3>1, PushMembers
    <3> QED  BY <2>1, <2>2, <3>1, <3>2 DEF Queued
  <2>4. CASE SpawnDropped(u)
    BY <2>2, <2>4 DEF SpawnDropped, Queued
  <2> QED  BY <1>2, <2>3, <2>4 DEF Spawn
<1>3. CASE PopStale
  <2>1. /\ Head(task_queues[level]) # t /\ task_queues[level] # <<>>
        /\ task_queues' = [task_queues EXCEPT ![level] = Tail(@)]
        /\ current' = current /\ refused' = refused /\ tasks' = tasks
    BY <1>3 DEF PopStale
  <2> QED  BY <1>1, <2>1, PopEffect
<1>4. CASE PopTask
  <2>1. /\ Head(task_queues[level]) # t /\ task_queues[level] # <<>>
        /\ task_queues' = [task_queues EXCEPT ![level] = Tail(@)]
        /\ refused' = refused \ {Head(task_queues[level])} /\ tasks' = tasks
        /\ pc = "scan"
    BY <1>4 DEF PopTask
  <2>2. current # t
    BY <1>1, <2>1, ExecutorAssumption DEF CurrentIsPolled
  <2> QED  BY <1>1, <2>1, <2>2, PopEffect
<1>5. CASE Run \/ NextLevel \/ Sleep \/ LoopAgain \/ TimerInterrupt
  <2>1. UNCHANGED <<tasks, task_queues, current, refused>>
    BY <1>5 DEF Run, NextLevel, Sleep, LoopAgain, TimerInterrupt, DisableInterrupts, CheckQueues,
                EnableAndHalt, EnableInterrupts
  <2> QED  BY <2>1 DEF Queued
<1> QED  BY <1>2, <1>3, <1>4, <1>5 DEF Kernel

\* Another task's step neither types a scancode nor takes the stream task off
\* its queue.
LEMMA OtherTaskKeepsWaiting ==
  ASSUME IInv, NEW t \in Tasks, NEW u \in Tasks, u # t, TerminalStep(u) \/ LoopStep(u),
         t \in tasks', HasScancode', KTypeOK,
         HasScancode /\ t \in tasks => Queued(t) \/ t \in refused
  PROVE  Queued(t)' \/ t \in refused'
<1>1. HasScancode /\ tasks' = tasks
  BY DEF TerminalStep, LoopStep, TerminalGet, TerminalYield, TerminalPending, LoopYield, Pop,
         HasScancode, PollYield, PollPending, vars
<1>2. CASE PollYield /\ current = u
  <2>1. u \in waker_cache
    BY <1>2, ExecutorAssumption DEF IInv, CurrentIsPolled
  <2>2. task_waker[u] = Prio[u] /\ Wake(u) /\ UNCHANGED <<tasks, level>>
    BY <1>2, <2>1 DEF IInv, WakersOwnQueue, PollYield
  <2> QED  BY <1>1, <2>2, WakeKeeps
<1>3. CASE UNCHANGED <<task_queues, refused>>
  BY <1>1, <1>3 DEF Queued
<1> QED
  BY <1>2, <1>3 DEF TerminalStep, LoopStep, TerminalGet, TerminalYield, TerminalPending, LoopYield,
                    At, PollPending, vars

\* The interrupt finds the stream task queued, or its waker registered.
LEMMA InterruptWakes ==
  ASSUME IInv, NEW t \in Streams, t \in tasks', current' # t, HasScancode',
         NEW c \in Codes, KeyboardInterrupt(c), NoLostKeyWake
  PROVE  Queued(t)' \/ t \in refused'
<1>1. t \in Tasks /\ current' = current /\ tasks' = tasks
  BY KeyboardAssumption DEF KeyboardInterrupt, ScancodeAccepted, ScancodeLost, WakeReader, DeviceInterrupt
<1>2. CASE \E u \in Streams : DeviceInterrupt(u)
  <2>1. armed[t] > 0 /\ Wake(t) /\ UNCHANGED <<tasks, level>>
    BY <1>2, KeyboardAssumption DEF DeviceInterrupt
  <2>2. task_waker[t] = Prio[t]
    BY <1>1, <2>1 DEF IInv, WakersOwnQueue
  <2> QED  BY <1>1, <2>1, <2>2, WakeKeeps
<1>3. CASE ~(armed[t] > 0) /\ UNCHANGED <<task_queues, refused>>
  BY <1>1, <1>3 DEF IInv, NoLostTask, Queued
<1>4. CASE ScancodeLost
  BY <1>1, <1>4 DEF ScancodeLost, NoLostKeyWake, HasScancode, Queued
<1> QED  BY <1>2, <1>3, <1>4 DEF KeyboardInterrupt, ScancodeAccepted, WakeReader

\* The stream task's own steps: it is suspended only when the second look at the
\* queue has found nothing.
LEMMA StreamSuspends ==
  ASSUME NEW t \in Streams, StreamStep(t), current' # t
  PROVE  ~HasScancode'
<1>1. ~(StreamNew(t) \/ StreamFast(t) \/ StreamRegister(t) \/ StreamRecheckFound(t) \/ StreamTake(t))
  BY DEF StreamNew, StreamFast, StreamRegister, StreamRecheckFound, StreamTake, At, PollRegister,
         PollReplace, PollUnregister, execVars, vars
<1> QED  BY <1>1 DEF StreamStep, StreamPending, HasScancode

\* Every step keeps the stream task's wake.
LEMMA KeyWakeStep ==
  ASSUME IInv, KTypeOK, NoLostKeyWake, [KNext]_kvars
  PROVE  NoLostKeyWake'
<1> SUFFICES ASSUME NEW t \in Streams, t \in tasks', HasScancode', current' # t
             PROVE  Queued(t)' \/ t \in refused'
  BY DEF NoLostKeyWake
<1>1. t \in Tasks
  BY KeyboardAssumption
<1>2. CASE UNCHANGED kvars
  BY <1>2 DEF kvars, vars, keyVars, NoLostKeyWake, HasScancode, Queued
<1>3. CASE UNCHANGED keyVars /\ (Kernel \/ TimerInterrupt \/ \E u \in Tasks : Spawn(u))
  <2>1. HasScancode
    BY <1>3 DEF keyVars, HasScancode
  <2>2. current # t => Queued(t) \/ t \in refused \/ t \notin tasks
    BY <2>1 DEF NoLostKeyWake
  <2> QED  BY <1>1, <1>3, <2>2, KernelKeepsWaiting
<1>4. ASSUME NEW u \in Streams, StreamStep(u)
      PROVE  FALSE
  <2>1. u = t
    BY KeyboardAssumption
  <2> QED  BY <1>4, <2>1, StreamSuspends
<1>5. ASSUME NEW u \in Tasks \ Streams, TerminalStep(u) \/ LoopStep(u)
      PROVE  Queued(t)' \/ t \in refused'
  <2>1. u # t /\ current = u
    BY <1>5 DEF TerminalStep, LoopStep, TerminalGet, TerminalYield, TerminalPending, LoopYield, At
  <2>2. HasScancode /\ t \in tasks => Queued(t) \/ t \in refused
    BY <2>1 DEF NoLostKeyWake
  <2> QED  BY <1>1, <1>5, <2>1, <2>2, OtherTaskKeepsWaiting
<1>6. ASSUME NEW c \in Codes, KeyboardInterrupt(c)
      PROVE  Queued(t)' \/ t \in refused'
  BY <1>6, InterruptWakes
<1> QED
  BY <1>2, <1>3, <1>4, <1>5, <1>6, KeyboardAssumption DEF KNext, TaskStep, LoopTask

-----------------------------------------------------------------------------
(* The theorems.                                                             *)

\* The invariant holds in every state.
LEMMA KInvariance == KSpec => []KInv
<1>1. KInit => KInv
  BY KeyboardAssumption DEF KInit, Init, KInv, KTypeOK, DeliveredOnceInOrder, NoLostKeyWake
<1>2. IInv /\ KInv /\ [KNext]_kvars => KInv'
  BY KTypeStep, DeliveryStep, KeyWakeStep DEF KInv
<1> QED  BY <1>1, <1>2, ExecutorInvariance, PTL DEF KSpec

\* The keyboard's state keeps its types and the scancode queue its capacity,
\* whatever is typed and whoever reads.
THEOREM KeyboardTypeCorrect == KSpec => []KTypeOK
<1>1. KInv => KTypeOK
  BY DEF KInv
<1> QED  BY <1>1, KInvariance, PTL

\* No scancode waits unseen by a suspended stream task.
THEOREM KeysWakeTheirReader == KSpec => []NoLostKeyWake
<1>1. KInv => NoLostKeyWake
  BY DEF KInv
<1> QED  BY <1>1, KInvariance, PTL

\* Every accepted scancode is handed out once, in the order of typing, also with
\* a second reader on the queue.
THEOREM KeysAreDeliveredInOrder == KSpec => []DeliveredOnceInOrder
<1>1. KInv => DeliveredOnceInOrder
  BY DEF KInv
<1> QED  BY <1>1, KInvariance, PTL
=============================================================================
