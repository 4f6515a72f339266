SPECIFICATION Spec
CONSTANTS
  q1 = q1
  q2 = q2
  Blank = Blank
  Requests <- TwoRequests
  Sids <- TwoSids
  Chunk = 2
  MaxBatch = 3
  MaxRows = 3
INVARIANTS
  RowsInOrder
  FramesBySid
