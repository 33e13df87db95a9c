CONSTANTS
  t1 = t1
  t2 = t2
  t3 = t3
  t4 = t4
  Tasks <- FourTasks
  MaxWaiters = 2
  CpuCounts <- MCCpuCounts
  Initial = 1
  MaxPermits = 2
  MaxExtra = 1
SPECIFICATION Spec
INVARIANTS
  TypeOK
  PermitsAccounted
  WaitersArePending
  NoStall
SYMMETRY TaskSymmetry
