SPECIFICATION FairSpec
CONSTANTS
  s1 = s1
  s2 = s2
  a = a
  b = b
  NoStream = NoStream
  Streams <- TwoStreams
  Callers <- TwoCallers
  Broadcasters <- OneCaster
  MaxConnections = 2
  BufferSize = 1
INVARIANTS
  EndsAgree
  BroadcastIsSafe
PROPERTIES
  SendReturns
  AbandonedIsRemoved
  ShutdownEnds
CHECK_DEADLOCK FALSE
