SPECIFICATION FairSpec
CONSTANTS
  s1 = s1
  s2 = s2
  g1 = g1
  None = None
  Requests <- AllRequests
  Streamed <- Streams
  PoolSize = 1
  MaxEngines = 3
  MaxSignals = 2
INVARIANTS
  FlagMeansEngine
  SessionsClosed
PROPERTIES
  OneEngine
  RequestsEnd
