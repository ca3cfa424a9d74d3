SPECIFICATION FairSpec
CONSTANTS
  r1 = r1
  r2 = r2
  r3 = r3
  r4 = r4
  r5 = r5
  m1 = m1
  m2 = m2
  Requests <- FiveRequests
  Models <- TwoModels
  ModelOf <- Targets
  Tokens <- Weights
  MaxBatchSize = 3
  MaxTokens = 4
INVARIANTS
  BatchesAreWhole
PROPERTIES
  AllAnswered
CHECK_DEADLOCK FALSE
