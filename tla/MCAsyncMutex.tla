--------------------------- MODULE MCAsyncMutex ---------------------------
(* Small instances of AsyncMutex for TLC.                                   *)
EXTENDS AsyncMutex, TLC

CONSTANTS t1, t2, t3, t4

MCTasks == {t1, t2, t3, t4}
ThreeTasks == {t1, t2, t3}
TaskSymmetry == Permutations(MCTasks)
MCCpuCounts == {1, 2}
OneCpu == {1}
===========================================================================
