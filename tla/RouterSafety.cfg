SPECIFICATION Spec
CONSTANTS
  m1 = m1
  m2 = m2
  r1 = r1
  r2 = r2
  ModelList <- TwoModels
  Tier <- MCTier
  Remote <- MCRemote
  Requests <- TwoRequests
  FailureThreshold = 2
  SuccessThreshold = 2
  MaxAttempts = 2
  Resetting = TRUE
SYMMETRY MCSymmetry
INVARIANTS
  BreakersConsistent
PROPERTIES
  OpenIsLeftByTrial
  FailureIsExhaustion
CHECK_DEADLOCK FALSE
