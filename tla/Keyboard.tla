------------------------------ MODULE Keyboard ------------------------------
(***************************************************************************)
(* The keyboard on top of the executor: the interrupt handler that pushes  *)
(* scancodes (keyboard.rs add_scancode), the ScancodeStream a task awaits  *)
(* (print_keypresses), the terminal task of main.rs that polls the same    *)
(* queue with get_scancode, and the tasks that do nothing but yield.       *)
(*                                                                         *)
(* The interrupt may come between any two operations on the scancode queue *)
(* and on the AtomicWaker.  armed[t] of Executor is the AtomicWaker: it    *)
(* holds the stream task's waker or nothing.                               *)
(***************************************************************************)
EXTENDS Executor, SequencesExt

CONSTANTS
  Streams,           \* tasks that run print_keypresses (at most one)
  Terminals,         \* tasks that run the loop of main.rs's terminal task
  Codes,             \* the scancodes the keyboard sends, each once
  ScancodeCapacity,  \* ArrayQueue::new(100) in ScancodeStream::new
  Uninit             \* SCANCODE_QUEUE before its call_once

ASSUME KeyboardAssumption ==
  /\ Streams \cup Terminals \subseteq Tasks
  /\ Streams \cap Terminals = {}
  /\ \A t, u \in Streams : t = u
  /\ ScancodeCapacity \in Nat \ {0}
  /\ Uninit \notin Seq(Codes)

VARIABLES
  scancodes,  \* SCANCODE_QUEUE: Uninit, or the queue
  spc,        \* spc[t]: where a stream or terminal task is in its code
  pressed,    \* history: scancodes the keyboard has sent
  accepted,   \* history: scancodes the queue took, in order
  consumed    \* history: scancodes that tasks popped, in order

keyVars == <<scancodes, spc, pressed, accepted, consumed>>
kvars == <<vars, keyVars>>

KInit ==
  /\ Init
  /\ scancodes = Uninit
  /\ spc = [t \in Tasks |-> "start"]
  /\ pressed = {}
  /\ accepted = <<>>
  /\ consumed = <<>>

\* The queue exists and holds a scancode.
HasScancode == scancodes # Uninit /\ scancodes # <<>>

Pop ==
  /\ consumed' = Append(consumed, Head(scancodes))
  /\ scancodes' = Tail(scancodes)

Goto(t, s) == spc' = [spc EXCEPT ![t] = s]

-----------------------------------------------------------------------------
(* keyboard_interrupt_handler, add_scancode.                                *)

\* Mutant: the reader is woken and its waker left in the AtomicWaker.
WakeReaderKeepWaker ==
  /\ IF \E t \in Streams : armed[t] > 0
     THEN \E t \in Streams : armed[t] > 0 /\ Wake(t)
     ELSE UNCHANGED <<task_queues, refused, late>>
  /\ EndHalt
  /\ UNCHANGED <<spawned, tasks, waker_cache, task_waker, level, current, interrupts,
                 armed, arranged>>

\* AtomicWaker::wake: take the registered waker, if any, and wake its task.
WakeReader ==
  IF \E t \in Streams : armed[t] > 0
  THEN \E t \in Streams : DeviceInterrupt(t)
  ELSE /\ EndHalt
       /\ UNCHANGED <<spawned, tasks, task_queues, waker_cache, task_waker, level,
                      current, interrupts, armed, arranged, refused, late>>

\* Mutant: the queue is taken to be unbounded.
HasRoomAlways == scancodes # Uninit

HasRoom == scancodes # Uninit /\ Len(scancodes) < ScancodeCapacity

\* Mutant: the waker is not woken after the push.
ScancodeAcceptedSilently(c) ==
  /\ HasRoom
  /\ scancodes' = Append(scancodes, c)
  /\ accepted' = Append(accepted, c)
  /\ EndHalt
  /\ UNCHANGED <<spawned, tasks, task_queues, waker_cache, task_waker, level,
                 current, interrupts, armed, arranged, refused, late>>

ScancodeAccepted(c) ==
  /\ HasRoom
  /\ scancodes' = Append(scancodes, c)
  /\ accepted' = Append(accepted, c)
  /\ WakeReader

\* The queue is full or was never created: the scancode is lost.
ScancodeLost ==
  /\ ~HasRoom
  /\ EndHalt
  /\ UNCHANGED <<spawned, tasks, task_queues, waker_cache, task_waker, level,
                 current, interrupts, armed, arranged, refused, late,
                 scancodes, accepted>>

KeyboardInterrupt(c) ==
  /\ interrupts
  /\ c \notin pressed
  /\ pressed' = pressed \cup {c}
  /\ ScancodeAccepted(c) \/ ScancodeLost
  /\ UNCHANGED <<spc, consumed>>

-----------------------------------------------------------------------------
(* print_keypresses and ScancodeStream::poll_next.                          *)

At(t, s) == pc = "poll" /\ current = t /\ spc[t] = s

\* ScancodeStream::new creates the queue the first time it is called.
StreamNew(t) ==
  /\ At(t, "start")
  /\ scancodes' = IF scancodes = Uninit THEN <<>> ELSE scancodes
  /\ Goto(t, "fast")
  /\ UNCHANGED <<vars, pressed, accepted, consumed>>

\* The fast path: the scancode is printed and the stream awaited again.
StreamFast(t) ==
  /\ At(t, "fast")
  /\ \/ HasScancode /\ Pop /\ UNCHANGED spc
     \/ ~HasScancode /\ Goto(t, "register") /\ UNCHANGED <<scancodes, consumed>>
  /\ UNCHANGED <<vars, pressed, accepted>>

\* WAKER.register replaces what the AtomicWaker held.
StreamRegister(t) ==
  /\ At(t, "register")
  /\ IF armed[t] = 0 THEN PollRegister ELSE PollReplace
  /\ Goto(t, "recheck")
  /\ UNCHANGED <<scancodes, pressed, accepted, consumed>>

\* Mutant: the second pop only tells that there is a scancode, and drops it.
StreamRecheckDropped(t) ==
  /\ At(t, "recheck")
  /\ HasScancode
  /\ scancodes' = Tail(scancodes)
  /\ Goto(t, "take")
  /\ UNCHANGED <<vars, pressed, accepted, consumed>>

\* The second pop finds a scancode that came before the registration.
StreamRecheckFound(t) ==
  /\ At(t, "recheck")
  /\ HasScancode
  /\ Pop
  /\ Goto(t, "take")
  /\ UNCHANGED <<vars, pressed, accepted>>

\* Mutant: no second pop after the registration.
StreamPendingUnchecked(t) ==
  /\ At(t, "recheck")
  /\ PollPending
  /\ Goto(t, "fast")
  /\ UNCHANGED <<scancodes, pressed, accepted, consumed>>

\* Nothing there: Poll::Pending.  The next poll starts with the fast path.
StreamPending(t) ==
  /\ At(t, "recheck")
  /\ ~HasScancode
  /\ PollPending
  /\ Goto(t, "fast")
  /\ UNCHANGED <<scancodes, pressed, accepted, consumed>>

\* WAKER.take() after the second pop succeeded.
StreamTake(t) ==
  /\ At(t, "take")
  /\ IF armed[t] > 0 THEN PollUnregister ELSE UNCHANGED vars
  /\ Goto(t, "fast")
  /\ UNCHANGED <<scancodes, pressed, accepted, consumed>>

-----------------------------------------------------------------------------
(* The terminal task's loop: get_scancode, handle the key, yield_now.       *)

TerminalGet(t) ==
  /\ At(t, "start")
  /\ IF HasScancode THEN Pop ELSE UNCHANGED <<scancodes, consumed>>
  /\ Goto(t, "yield")
  /\ UNCHANGED <<vars, pressed, accepted>>

TerminalYield(t) ==
  /\ At(t, "yield")
  /\ PollYield
  /\ Goto(t, "pending")
  /\ UNCHANGED <<scancodes, pressed, accepted, consumed>>

TerminalPending(t) ==
  /\ At(t, "pending")
  /\ PollPending
  /\ Goto(t, "start")
  /\ UNCHANGED <<scancodes, pressed, accepted, consumed>>

(* The loops of main.rs's network poller and DHCP task, as the executor     *)
(* sees them: they yield and never finish.                                  *)

LoopTask(t) == t \notin Streams \cup Terminals

LoopYield(t) ==
  /\ At(t, "start")
  /\ PollYield
  /\ Goto(t, "pending")
  /\ UNCHANGED <<scancodes, pressed, accepted, consumed>>

-----------------------------------------------------------------------------
StreamStep(t) ==
  \/ StreamNew(t)
  \/ StreamFast(t)
  \/ StreamRegister(t)
  \/ StreamRecheckFound(t)
  \/ StreamPending(t)
  \/ StreamTake(t)

TerminalStep(t) == TerminalGet(t) \/ TerminalYield(t) \/ TerminalPending(t)

LoopStep(t) == LoopYield(t) \/ TerminalPending(t)

TaskStep ==
  \/ \E t \in Streams : StreamStep(t)
  \/ \E t \in Terminals : TerminalStep(t)
  \/ \E t \in Tasks : LoopTask(t) /\ LoopStep(t)

KNext ==
  \/ \E t \in Tasks : Spawn(t) /\ UNCHANGED keyVars
  \/ Kernel /\ UNCHANGED keyVars
  \/ TimerInterrupt /\ UNCHANGED keyVars
  \/ TaskStep
  \/ \E c \in Codes : KeyboardInterrupt(c)

KSpec == KInit /\ [][KNext]_kvars

\* The CPU executes the executor and the polled task; the timer ticks.  A key
\* is pressed or not.
KFairSpec ==
  /\ KSpec
  /\ WF_kvars(Kernel /\ UNCHANGED keyVars)
  /\ WF_kvars(TaskStep)
  /\ WF_kvars(TimerInterrupt /\ UNCHANGED keyVars)
-----------------------------------------------------------------------------
(* Properties.                                                              *)

\* The types of the keyboard's state; the scancode queue keeps its capacity.
KTypeOK ==
  /\ scancodes = Uninit \/ (scancodes \in Seq(pressed) /\ Len(scancodes) <= ScancodeCapacity)
  /\ spc \in [Tasks -> {"start", "fast", "register", "recheck", "take", "yield", "pending"}]
  /\ pressed \subseteq Codes
  /\ accepted \in Seq(pressed) /\ consumed \in Seq(pressed)

\* No scancode waits unseen: while the queue holds one, the suspended stream
\* task is on a run queue, or a full run queue refused its wake.  This is the
\* pop / register / pop protocol of poll_next against an interrupt that pushes
\* and wakes at any point of it, with another task popping the same queue.
NoLostKeyWake ==
  \A t \in Streams \cap tasks :
    HasScancode /\ current # t => Queued(t) \/ t \in refused

\* Every scancode the queue took is handed out once, to one task, in the order
\* in which it was typed.
DeliveredOnceInOrder ==
  accepted = consumed \o (IF scancodes = Uninit THEN <<>> ELSE scancodes)

\* Every scancode the queue took is eventually handled by a task.
AcceptedIsConsumed ==
  \A c \in Codes : (c \in Range(accepted)) ~> (c \in Range(consumed))

\* The composition implements the executor with its unspecified tasks, so
\* that what is shown of the executor holds here.
ImplementsExecutor == Spec

\* Every key press reaches a task ("Type 'help' for available commands.").
KeyPressIsHandled ==
  \A c \in Codes : (c \in pressed) ~> (c \in Range(consumed))
=============================================================================
