SPECIFICATION Spec
CONSTANTS
  Ranks = {0, 1}
  MaxSize = 5
  MaxQueues = 2
  Holders = {"h"}
  Consumers = {"x", "y", "z"}
  MaxWaiting = 3
  Capacity = 3
  MaxPushed = 5
  Nodes = {"a", "b", "c"}
  Processes = {"a", "b"}
  Size = 8
  Replicas = 2
  HashOf <- MCHash
  KeyHashes <- MCKeyHashes
  QueueThreshold = 80
  AdaptiveThreshold = TRUE
  RejectLowPriority = TRUE
  EnableLoadShedding = TRUE
  Loads = {0, 49, 50, 55, 56, 67, 68, 75, 76, 79, 80, 89, 90, 91, 94, 95, 96, 100}
  Clients = {"c", "d", "e"}
  MaxFailures = 2
  MaxCount = 4
  MaxSteps = 3
  Parallel = 3
  Outputs <- MCOutputs
INVARIANTS
  QueuesServe
  RingFollowsNodes
  StateFitsCount
  OrchestrationCarries
PROPERTIES
  SheddingIsMonotone
CHECK_DEADLOCK FALSE
