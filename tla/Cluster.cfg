SPECIFICATION Spec
CONSTANTS
  n1 = n1
  n2 = n2
  c1 = c1
  c2 = c2
  k1 = k1
  k2 = k2
  v1 = v1
  v2 = v2
  Nodes <- TwoNodes
  Callers <- TwoCallers
  Home <- OneEach
  Stored <- Before
  Menu <- Mixed
  Keys <- TwoKeys
  Values <- TwoValues
  MaxL1 = 1
  MaxCalls = 3
PROPERTIES
  EpochMonotone
  StaleOnlyThrough
CHECK_DEADLOCK FALSE
