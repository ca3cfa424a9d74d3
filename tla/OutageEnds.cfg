SPECIFICATION FairSpec
CONSTANTS
  m1 = m1
  m2 = m2
  r1 = r1
  r2 = r2
  ModelList <- TwoModels
  Tier <- MCTier
  Remote <- NoModels
  Requests <- OneRequest
  FailureThreshold = 1
  SuccessThreshold = 1
  MaxAttempts = 1
  Resetting = FALSE
PROPERTIES
  OutageEnds
CHECK_DEADLOCK FALSE
