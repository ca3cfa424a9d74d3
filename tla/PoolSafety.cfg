SPECIFICATION Spec
CONSTANTS
  j1 = j1
  j2 = j2
  j3 = j3
  NoJob = NoJob
  Jobs <- TwoJobs
  Prio <- MCPrio
  Priorities = {0, 3}
  QueueCap = 1
  MinWorkers = 1
  MaxWorkers = 2
  MaxSpawns = 3
  MaxHealthTicks = 1
  ScaleUpPct = 40
  ScaleDownPct = 20
CONSTRAINT TickOrReuse
CHECK_DEADLOCK FALSE
INVARIANTS
  JobPlacement
  UnfinishedIsTracked
  PoolSize
PROPERTIES
  OutcomeStays
  QuietAfterShutdown
