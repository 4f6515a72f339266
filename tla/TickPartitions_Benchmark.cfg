SPECIFICATION Spec
CONSTANTS
  w1 = w1
  w2 = w2
  NoLoad = NoLoad
  NoJob = NoJob
  NoWriter = NoWriter
  Consumers <- Writers
  Graphs <- BenchmarkGraphs
  Directories <- BenchmarkDirectories
  MayFail = {"Multiply", "UniverseDateParser"}
  MaxLoads = 1
  MaxTroubled = 0
  MaxTwice = 0
  Races <- SomeRaces
  Starts <- SomeStarts
  Ends <- SomeEnds
  Sids <- AllSids
  FirstYear = 2022
  LastYear = 2025
INVARIANT BenchmarksFound
