CONSTANTS
  a = a
  b = b
  c = c
  d = d
  NoTask = NoTask
  Tasks <- MCTasks
  Prio <- MCPrio
  QueueCapacity = 2
  MaxClones = 2
SPECIFICATION Spec
INVARIANTS
  TypeOK
  NoLostTask
  NoHaltWithReadyTask
  QueuedAtOwnPriority
  DrainedInOrder
PROPERTY
  ImplementsSched
