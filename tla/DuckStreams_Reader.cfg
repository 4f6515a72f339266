SPECIFICATION Spec
CONSTANTS
  r1 = r1
  r2 = r2
  r3 = r3
  d1 = d1
  None = None
  Requests <- TwoRequests
  Conns <- OneConn
  MaxStreams = 1
  MaxBatches = 1
INVARIANT ReaderKeepsItsStatement
