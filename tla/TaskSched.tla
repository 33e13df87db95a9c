----------------------------- MODULE TaskSched -----------------------------
(***************************************************************************)
(* What the executor promises to the tasks, without queues, levels, wakers *)
(* or interrupts: a task is polled only if it was spawned or woken and is  *)
(* not finished, one task at a time; a woken task stays ready until it is  *)
(* polled; a finished task is never polled again.                          *)
(***************************************************************************)
CONSTANTS Tasks, NoTask

VARIABLES
  created,  \* the ids used so far
  live,     \* tasks that are not finished
  ready,    \* tasks that will be polled
  running   \* the task being polled

Init ==
  /\ created = {}
  /\ live = {}
  /\ ready = {}
  /\ running = NoTask

\* A new task is ready, unless there is no room for it and it is given up.
Spawn(t) ==
  /\ t \notin created
  /\ created' = created \cup {t}
  /\ \/ live' = live \cup {t} /\ ready' = ready \cup {t}
     \/ UNCHANGED <<live, ready>>
  /\ UNCHANGED running

Wake(t) ==
  /\ t \in live
  /\ ready' = ready \cup {t}
  /\ UNCHANGED <<created, live, running>>

\* A task that was woken twice may stay ready while it is polled.
Poll(t) ==
  /\ running = NoTask
  /\ t \in ready
  /\ running' = t
  /\ ready' \in {ready, ready \ {t}}
  /\ UNCHANGED <<created, live>>

Suspend ==
  /\ running # NoTask
  /\ running' = NoTask
  /\ UNCHANGED <<created, live, ready>>

Finish ==
  /\ running # NoTask
  /\ live' = live \ {running}
  /\ ready' = ready \ {running}
  /\ running' = NoTask
  /\ UNCHANGED created

Next ==
  \/ \E t \in Tasks : Spawn(t) \/ Wake(t) \/ Poll(t)
  \/ Suspend
  \/ Finish

Spec == Init /\ [][Next]_<<created, live, ready, running>>
=============================================================================
