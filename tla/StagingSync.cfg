SPECIFICATION Spec
CONSTANTS
  t1 = t1
  t2 = t2
  Ticks <- TwoTicks
  MaxFiles = 3
  MaxCrashes = 2
INVARIANTS
  TypeOK
  NothingLost
  FoldedIsNewest
PROPERTY NewerWins
