SPECIFICATION Spec
CONSTANTS
  j1 = j1
  j2 = j2
  j3 = j3
  NoJob = NoJob
  Jobs <- OneJob
  Prio <- MCPrio
  Priorities = {0, 3}
  QueueCap = 1
  MinWorkers = 1
  MaxWorkers = 2
  MaxSpawns = 3
  MaxHealthTicks = 0
  ScaleUpPct = 80
  ScaleDownPct = 20
CHECK_DEADLOCK FALSE
INVARIANTS
  GracefulShutdown
