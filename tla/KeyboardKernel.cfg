CONSTANTS
  stream = stream
  term = term
  net = net
  k1 = k1
  k2 = k2
  k3 = k3
  NoTask = NoTask
  Uninit = Uninit
  Tasks <- KernelTasks
  Prio <- MCPrio
  Streams = {}
  Terminals <- MCTerminals
  Codes <- MCCodes
  QueueCapacity = 5
  MaxClones = 1
  ScancodeCapacity = 2
SPECIFICATION KFairSpec
PROPERTY
  KeyPressIsHandled
