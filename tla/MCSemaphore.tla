---------------------------- MODULE MCSemaphore ----------------------------
(* Small instances of Semaphore for TLC.                                    *)
EXTENDS Semaphore, TLC

CONSTANTS t1, t2, t3, t4

MCTasks == {t1, t2, t3}
FourTasks == {t1, t2, t3, t4}
MCCpuCounts == {1, 2}
TaskSymmetry == Permutations(Tasks)
===========================================================================
