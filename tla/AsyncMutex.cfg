CONSTANTS
  t1 = t1
  t2 = t2
  t3 = t3
  t4 = t4
  Tasks <- MCTasks
  MaxWaiters = 2
  CpuCounts <- MCCpuCounts
SPECIFICATION MSpec
INVARIANTS
  MTypeOK
  MutualExclusion
  MWaitersArePending
  MNoStall
SYMMETRY TaskSymmetry
