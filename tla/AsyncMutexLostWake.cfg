CONSTANTS
  t1 = t1
  t2 = t2
  t3 = t3
  t4 = t4
  Tasks <- ThreeTasks
  MaxWaiters = 2
  CpuCounts <- OneCpu
SPECIFICATION MFairSpec
PROPERTY
  NoWaitOnFreeLock
