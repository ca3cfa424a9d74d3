SPECIFICATION FairSpec
CONSTANTS
  local = local
  remote = remote
  Models <- BothModels
  Local <- OneLocal
  FailureThreshold = 2
  SuccessThreshold = 2
  Checks <- Overlap
INVARIANTS
  VerdictAgrees
PROPERTIES
  ViewsConverge
CHECK_DEADLOCK FALSE
