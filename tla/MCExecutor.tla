---------------------------- MODULE MCExecutor ----------------------------
(* Small instances of Executor for TLC.                                     *)
EXTENDS Executor, TLC

CONSTANTS a, b, c, d

\* Three Normal tasks, as the kernel spawns, and a Critical one: with a queue
\* of two, a spawn and a wake can each meet a full queue.
MCTasks == {a, b, c, d}
MCPrio == (a :> 3) @@ (b :> 1) @@ (c :> 1) @@ (d :> 1)

\* One Normal task, as the kernel spawns, and a Critical one.
TwoTasks == {a, b}
TwoPrio == (a :> 3) @@ (b :> 1)
===========================================================================
