------------------------------ MODULE Executor ------------------------------
(***************************************************************************)
(* The kernel's cooperative task executor (src/kernel/src/task/executor.rs *)
(* and task/mod.rs) on its single CPU, with the interrupts that run        *)
(* between its instructions.                                               *)
(*                                                                         *)
(* The executor owns the registered tasks and one bounded run queue per    *)
(* priority level.  A pass (run_ready_tasks) drains the levels from 3      *)
(* (Critical) to 0 (Idle); after a pass, sleep_if_idle halts the CPU if    *)
(* every queue is empty.  A waker pushes its task's id on the queue it was *)
(* created with.  Clones of a waker are held by event sources (the         *)
(* keyboard's AtomicWaker, the waiters of a mutex or of a semaphore): each *)
(* is consumed by the one wake it performs, from an interrupt handler or   *)
(* from the task that is being polled.                                     *)
(*                                                                         *)
(* What a task does while it is polled is left open up to the contract of  *)
(* Future::poll: it returns Pending only after this poll has woken it      *)
(* (yield_now) or has handed a clone of its waker to an event source.      *)
(***************************************************************************)
EXTENDS Integers, Sequences, FiniteSets

CONSTANTS
  Tasks,          \* the task ids TaskId::new hands out
  Prio,           \* Prio[t]: the priority t is created with
  QueueCapacity,  \* QUEUE_CAPACITY
  MaxClones,      \* bound: clones of one task's waker held by event sources
  NoTask          \* no task is being polled

Levels == 0..3

ASSUME ExecutorAssumption ==
  /\ Prio \in [Tasks -> Levels]
  /\ QueueCapacity \in Nat \ {0}
  /\ MaxClones \in Nat \ {0}
  /\ NoTask \notin Tasks

VARIABLES
  spawned,      \* ids that were handed out so far (NEXT_ID)
  tasks,        \* Executor.tasks: the registered tasks
  task_queues,  \* Executor.task_queues: one FIFO queue of ids per level
  waker_cache,  \* Executor.waker_cache: the tasks whose waker is cached
  task_waker,   \* TaskWaker.task_queue: the queue t's waker pushes to
  pc,           \* where the executor is
  level,        \* `priority` in the loop of run_ready_tasks
  current,      \* the task being polled
  interrupts,   \* the CPU's interrupt flag
  armed,        \* armed[t]: clones of t's waker held by event sources
  arranged,     \* this poll has arranged for a wake of its task
  refused,      \* history: tasks whose wake a full queue refused, since their last poll
  late          \* history: levels pushed to after this pass had drained them

execVars == <<spawned, tasks, task_queues, waker_cache, task_waker, pc, level,
              current, interrupts>>
vars == <<spawned, tasks, task_queues, waker_cache, task_waker, pc, level,
          current, interrupts, armed, arranged, refused, late>>

NoQueue == -1

InQueue(t, q) == \E i \in 1..Len(q) : q[i] = t

\* t's id is on the queue of one of the levels.
Queued(t) == \E l \in Levels : InQueue(t, task_queues[l])

Init ==
  /\ spawned = {}
  /\ tasks = {}
  /\ task_queues = [l \in Levels |-> <<>>]
  /\ waker_cache = {}
  /\ task_waker = [t \in Tasks |-> NoQueue]
  /\ pc = "boot"
  /\ level = 3
  /\ current = NoTask
  /\ interrupts = TRUE
  /\ armed = [t \in Tasks |-> 0]
  /\ arranged = FALSE
  /\ refused = {}
  /\ late = {}

-----------------------------------------------------------------------------
(* Before the executor runs: Executor::spawn of a new task.  run() never    *)
(* returns and borrows the executor, so nothing is spawned afterwards.      *)

\* The queue has room: the task is registered and its id is pushed.
SpawnPushed(t) ==
  /\ Len(task_queues[Prio[t]]) < QueueCapacity
  /\ tasks' = tasks \cup {t}
  /\ task_queues' = [task_queues EXCEPT ![Prio[t]] = Append(@, t)]

\* The push fails: the task is removed again, and a warning is logged.
SpawnDropped(t) ==
  /\ Len(task_queues[Prio[t]]) >= QueueCapacity
  /\ UNCHANGED <<tasks, task_queues>>

Spawn(t) ==
  /\ pc = "boot"
  /\ t \notin spawned
  /\ spawned' = spawned \cup {t}
  /\ SpawnPushed(t) \/ SpawnDropped(t)
  /\ UNCHANGED <<waker_cache, task_waker, pc, level, current, interrupts,
                 armed, arranged, refused, late>>

\* A pass of run_ready_tasks begins at the Critical level.
StartPass ==
  /\ pc' = "scan"
  /\ level' = 3
  /\ late' = {}

\* Executor::run enters its loop.
Run ==
  /\ pc = "boot"
  /\ StartPass
  /\ UNCHANGED <<spawned, tasks, task_queues, waker_cache, task_waker,
                 current, interrupts, armed, arranged, refused>>

-----------------------------------------------------------------------------
(* TaskWaker::wake_by_ref: push the id, or drop the wake on a full queue.   *)

\* Mutant: the id is pushed on a full queue.
WakeUnbounded(t) ==
  LET l == task_waker[t] IN
    /\ task_queues' = [task_queues EXCEPT ![l] = Append(@, t)]
    /\ refused' = refused
    /\ late' = IF l > level THEN late \cup {l} ELSE late

\* Mutant: the wake of a task that is being polled is taken as superfluous.
WakeUnlessCurrent(t) ==
  LET l == task_waker[t]
      push == t # current /\ Len(task_queues[l]) < QueueCapacity
  IN  /\ task_queues' = IF push THEN [task_queues EXCEPT ![l] = Append(@, t)] ELSE task_queues
      /\ refused' = IF t # current /\ ~push /\ ~InQueue(t, task_queues[l])
                    THEN refused \cup {t} ELSE refused
      /\ late' = IF push /\ l > level THEN late \cup {l} ELSE late

Wake(t) ==
  LET l == task_waker[t]
      full == Len(task_queues[l]) >= QueueCapacity
  IN  /\ task_queues' = IF full THEN task_queues
                        ELSE [task_queues EXCEPT ![l] = Append(@, t)]
      /\ refused' = IF full /\ ~InQueue(t, task_queues[l])
                    THEN refused \cup {t} ELSE refused
      /\ late' = IF ~full /\ l > level THEN late \cup {l} ELSE late

-----------------------------------------------------------------------------
(* run_ready_tasks.                                                         *)

\* The popped task no longer exists: its id is skipped.
PopStale ==
  /\ pc = "scan"
  /\ task_queues[level] # <<>>
  /\ Head(task_queues[level]) \notin tasks
  /\ task_queues' = [task_queues EXCEPT ![level] = Tail(@)]
  /\ UNCHANGED <<spawned, tasks, waker_cache, task_waker, pc, level, current,
                 interrupts, armed, arranged, refused, late>>

\* Mutant: a new waker pushes to the Normal queue, whatever the task's priority.
PopTaskNormalWaker ==
  /\ pc = "scan"
  /\ task_queues[level] # <<>>
  /\ LET t == Head(task_queues[level]) IN
       /\ t \in tasks
       /\ task_queues' = [task_queues EXCEPT ![level] = Tail(@)]
       /\ waker_cache' = waker_cache \cup {t}
       /\ task_waker' = IF t \in waker_cache THEN task_waker
                        ELSE [task_waker EXCEPT ![t] = 1]
       /\ current' = t
       /\ refused' = refused \ {t}
  /\ pc' = "poll"
  /\ arranged' = FALSE
  /\ UNCHANGED <<spawned, tasks, level, interrupts, armed, late>>

\* Mutant: the popped id is polled without looking it up in `tasks`.
PopTaskUnchecked ==
  /\ pc = "scan"
  /\ task_queues[level] # <<>>
  /\ LET t == Head(task_queues[level]) IN
       /\ task_queues' = [task_queues EXCEPT ![level] = Tail(@)]
       /\ waker_cache' = waker_cache \cup ({t} \cap tasks)
       /\ task_waker' = IF t \in waker_cache THEN task_waker
                        ELSE [task_waker EXCEPT ![t] = level]
       /\ current' = t
       /\ refused' = refused \ {t}
  /\ pc' = "poll"
  /\ arranged' = FALSE
  /\ UNCHANGED <<spawned, tasks, level, interrupts, armed, late>>

\* The popped task is looked up, its waker taken from the cache or created
\* for the queue of this level, and the poll begins.
PopTask ==
  /\ pc = "scan"
  /\ task_queues[level] # <<>>
  /\ LET t == Head(task_queues[level]) IN
       /\ t \in tasks
       /\ task_queues' = [task_queues EXCEPT ![level] = Tail(@)]
       /\ waker_cache' = waker_cache \cup {t}
       /\ task_waker' = IF t \in waker_cache THEN task_waker
                        ELSE [task_waker EXCEPT ![t] = level]
       /\ current' = t
       /\ refused' = refused \ {t}
  /\ pc' = "poll"
  /\ arranged' = FALSE
  /\ UNCHANGED <<spawned, tasks, level, interrupts, armed, late>>

\* Mutant: one task per level, then the next level.
NextLevelEarly ==
  /\ pc = "scan"
  /\ \/ level > 0 /\ level' = level - 1 /\ pc' = "scan"
     \/ level = 0 /\ pc' = "sleep" /\ level' = level
  /\ UNCHANGED <<spawned, tasks, task_queues, waker_cache, task_waker,
                 current, interrupts, armed, arranged, refused, late>>

\* The queue of this level is empty: go one level down, or end the pass.
NextLevel ==
  /\ pc = "scan"
  /\ task_queues[level] = <<>>
  /\ \/ level > 0 /\ level' = level - 1 /\ pc' = "scan"
     \/ level = 0 /\ pc' = "sleep" /\ level' = level
  /\ UNCHANGED <<spawned, tasks, task_queues, waker_cache, task_waker,
                 current, interrupts, armed, arranged, refused, late>>

-----------------------------------------------------------------------------
(* The task being polled.                                                   *)

\* yield_now (YieldNow::poll): wake_by_ref of its own waker.
PollYield ==
  /\ pc = "poll"
  /\ Wake(current)
  /\ arranged' = TRUE
  /\ UNCHANGED <<spawned, tasks, waker_cache, task_waker, pc, level, current,
                 interrupts, armed>>

\* The task hands a clone of its waker to an event source.
PollRegister ==
  /\ pc = "poll"
  /\ armed[current] < MaxClones
  /\ armed' = [armed EXCEPT ![current] = @ + 1]
  /\ arranged' = TRUE
  /\ UNCHANGED <<execVars, refused, late>>

\* ... in the place of one that this event source already holds.
PollReplace ==
  /\ pc = "poll"
  /\ armed[current] > 0
  /\ arranged' = TRUE
  /\ UNCHANGED <<execVars, armed, refused, late>>

\* The task takes a clone of its waker back from an event source.
PollUnregister ==
  /\ pc = "poll"
  /\ armed[current] > 0
  /\ armed' = [armed EXCEPT ![current] = @ - 1]
  /\ arranged' = FALSE
  /\ UNCHANGED <<execVars, refused, late>>

\* The task fires an event (it releases a lock, say) that consumes a clone
\* of t's waker.
PollWake(t) ==
  /\ pc = "poll"
  /\ armed[t] > 0
  /\ armed' = [armed EXCEPT ![t] = @ - 1]
  /\ Wake(t)
  /\ UNCHANGED <<spawned, tasks, waker_cache, task_waker, pc, level, current,
                 interrupts, arranged>>

\* Poll::Ready: the task and its cached waker are removed.
PollReady ==
  /\ pc = "poll"
  /\ tasks' = tasks \ {current}
  /\ waker_cache' = waker_cache \ {current}
  /\ current' = NoTask
  /\ pc' = "scan"
  /\ UNCHANGED <<spawned, task_queues, task_waker, level, interrupts, armed,
                 arranged, refused, late>>

\* Poll::Pending: nothing is done; the task's waker will queue it again.
PollPending ==
  /\ pc = "poll"
  /\ arranged
  /\ current' = NoTask
  /\ pc' = "scan"
  /\ UNCHANGED <<spawned, tasks, task_queues, waker_cache, task_waker, level,
                 interrupts, armed, arranged, refused, late>>

-----------------------------------------------------------------------------
(* sleep_if_idle.  enable_and_hlt is `sti; hlt`: the CPU takes no interrupt *)
(* between the two, so enabling and halting are one step.                   *)

\* Mutant: the queues are checked with interrupts enabled.
DisableNothing ==
  /\ pc = "sleep"
  /\ pc' = "check"
  /\ UNCHANGED <<spawned, tasks, task_queues, waker_cache, task_waker, level,
                 current, interrupts, armed, arranged, refused, late>>

DisableInterrupts ==
  /\ pc = "sleep"
  /\ interrupts' = FALSE
  /\ pc' = "check"
  /\ UNCHANGED <<spawned, tasks, task_queues, waker_cache, task_waker, level,
                 current, armed, arranged, refused, late>>

AllEmpty == \A l \in Levels : task_queues[l] = <<>>

CheckQueues ==
  /\ pc = "check"
  /\ pc' = IF AllEmpty THEN "hlt" ELSE "enable"
  /\ UNCHANGED <<spawned, tasks, task_queues, waker_cache, task_waker, level,
                 current, interrupts, armed, arranged, refused, late>>

EnableAndHalt ==
  /\ pc = "hlt"
  /\ interrupts' = TRUE
  /\ pc' = "halted"
  /\ UNCHANGED <<spawned, tasks, task_queues, waker_cache, task_waker, level,
                 current, armed, arranged, refused, late>>

EnableInterrupts ==
  /\ pc = "enable"
  /\ interrupts' = TRUE
  /\ pc' = "resume"
  /\ UNCHANGED <<spawned, tasks, task_queues, waker_cache, task_waker, level,
                 current, armed, arranged, refused, late>>

\* sleep_if_idle has returned: the loop of run() starts the next pass.
LoopAgain ==
  /\ pc = "resume"
  /\ StartPass
  /\ UNCHANGED <<spawned, tasks, task_queues, waker_cache, task_waker,
                 current, interrupts, armed, arranged, refused>>

-----------------------------------------------------------------------------
(* Interrupts.  A handler runs to its end with interrupts off; on a halted  *)
(* CPU it also ends the HLT.                                                *)

EndHalt == pc' = IF pc = "halted" THEN "resume" ELSE pc

\* timer_interrupt_handler: acknowledges the interrupt, wakes nobody.
TimerInterrupt ==
  /\ interrupts
  /\ pc = "halted"
  /\ EndHalt
  /\ UNCHANGED <<spawned, tasks, task_queues, waker_cache, task_waker, level,
                 current, interrupts, armed, arranged, refused, late>>

\* A device's handler consumes a clone of t's waker.
DeviceInterrupt(t) ==
  /\ interrupts
  /\ armed[t] > 0
  /\ armed' = [armed EXCEPT ![t] = @ - 1]
  /\ Wake(t)
  /\ EndHalt
  /\ UNCHANGED <<spawned, tasks, waker_cache, task_waker, level, current,
                 interrupts, arranged>>

-----------------------------------------------------------------------------
Sleep == DisableInterrupts \/ CheckQueues \/ EnableAndHalt \/ EnableInterrupts

\* The steps of the executor's own code.
Kernel == Run \/ PopStale \/ PopTask \/ NextLevel \/ Sleep \/ LoopAgain

PollReturn == PollReady \/ PollPending

Next ==
  \/ \E t \in Tasks : Spawn(t)
  \/ Kernel
  \/ PollYield
  \/ PollRegister
  \/ PollReplace
  \/ PollUnregister
  \/ \E t \in Tasks : PollWake(t)
  \/ PollReturn
  \/ TimerInterrupt
  \/ \E t \in Tasks : DeviceInterrupt(t)

Spec == Init /\ [][Next]_vars

\* The CPU keeps executing, every poll returns (there is no preemption: the
\* tasks are written so), and the timer keeps ticking.
FairSpec == Spec /\ WF_vars(Kernel) /\ WF_vars(PollReturn) /\ WF_vars(TimerInterrupt)

-----------------------------------------------------------------------------
(* Properties.                                                              *)

PcValues == {"boot", "scan", "poll", "sleep", "check", "hlt", "enable", "halted", "resume"}

\* Every variable has its type; the run queues never exceed their capacity
\* (ArrayQueue::new(QUEUE_CAPACITY), executor.rs).
TypeOK ==
  /\ spawned \subseteq Tasks
  /\ tasks \subseteq spawned
  /\ task_queues \in [Levels -> Seq(Tasks)]
  /\ \A l \in Levels : Len(task_queues[l]) <= QueueCapacity
  /\ waker_cache \subseteq tasks
  /\ task_waker \in [Tasks -> Levels \cup {NoQueue}]
  /\ pc \in PcValues
  /\ level \in Levels
  /\ current \in Tasks \cup {NoTask}
  /\ interrupts \in BOOLEAN
  /\ armed \in [Tasks -> 0..MaxClones]
  /\ arranged \in BOOLEAN
  /\ refused \subseteq Tasks
  /\ late \subseteq Levels

\* No task is forgotten: a registered task that is not being polled is on a
\* run queue, or an event source holds its waker, or a full queue refused a
\* wake of it since it was last polled.  This is about the order of pop, poll
\* and wake in run_ready_tasks and TaskWaker::wake_by_ref: a wake that arrives
\* during the poll, or between the pop and the poll, must survive it.
NoLostTask ==
  \A t \in tasks \ {current} : Queued(t) \/ armed[t] > 0 \/ t \in refused

\* The CPU halts only with every run queue empty, whatever interrupts do
\* around sleep_if_idle's check: otherwise a ready task would wait for an
\* unrelated interrupt.
NoHaltWithReadyTask == pc = "halted" => AllEmpty

\* A task's id is only ever on the run queue of the task's own priority, also
\* when the push is made by a waker that was cached many passes ago, or by one
\* that outlives its task.
QueuedAtOwnPriority ==
  \A l \in Levels : \A i \in 1..Len(task_queues[l]) : Prio[task_queues[l][i]] = l

\* "Process all tasks in this priority level before moving lower": while a
\* pass is at some level, ids queued above that level were pushed after the
\* pass had left their level.
DrainedInOrder ==
  pc \in {"scan", "poll"} =>
    \A l \in Levels : l > level /\ task_queues[l] # <<>> => l \in late

\* The executor implements the scheduler its tasks rely on.
Sched == INSTANCE TaskSched WITH
  created <- spawned, live <- tasks, ready <- {t \in tasks : Queued(t)}, running <- current

\* Every step of the executor, of the polled task and of an interrupt handler
\* is a step of the abstract scheduler or changes nothing of it: ids of
\* finished tasks and duplicate ids on the queues are invisible to the tasks.
ImplementsSched == Sched!Spec

\* A woken task of the highest priority is eventually polled: "its ID is
\* pushed back onto its priority queue so it will be polled again", and the
\* executor "processes them from highest (Critical) to lowest (Idle) priority".
CriticalIsPolled ==
  \A t \in Tasks : (t \in tasks /\ Prio[t] = 3 /\ Queued(t)) ~> (current = t)
=============================================================================
