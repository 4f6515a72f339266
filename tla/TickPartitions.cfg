SPECIFICATION Spec
CONSTANTS
  w1 = w1
  w2 = w2
  NoLoad = NoLoad
  NoJob = NoJob
  NoWriter = NoWriter
  Consumers <- Writers
  Graphs <- StockGraphs
  Directories <- StockDirectories
  MayFail = {"Multiply", "UniverseDateParser"}
  MaxLoads = 2
  MaxTroubled = 1
  MaxTwice = 1
  Races <- SomeRaces
  Starts <- SomeStarts
  Ends <- SomeEnds
  Sids <- AllSids
  FirstYear = 2022
  LastYear = 2025
SYMMETRY WritersAlike
INVARIANTS
  FullLoadReplaces
  ReadBack
  NothingMissed
  NothingInVain
  TickLag
PROPERTY IncrementalAppends
