SPECIFICATION FairSpec
CONSTANTS
  None = None
  Classes <- ClassNames
  Own <- ClassBodies
  RootOwn <- NodeBody
  Inits <- WithInit
  Configs <- GraphFiles
  Workers = {w1, w2}
  MaxRuns = 3
  MaxThreads = 2
INVARIANTS
  OnlyItsOwnNodes
  PoolFitsRun
PROPERTY RunsReturn
