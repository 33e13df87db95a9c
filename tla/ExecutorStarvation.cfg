CONSTANTS
  a = a
  b = b
  c = c
  d = d
  NoTask = NoTask
  Tasks <- TwoTasks
  Prio <- TwoPrio
  QueueCapacity = 3
  MaxClones = 1
SPECIFICATION FairSpec
PROPERTY
  CriticalIsPolled
