SPECIFICATION FairWatch
CONSTANTS
  Usages <- Percentages
  WarningAt = 80
  CriticalAt = 90
  Keep = 2
  MaxStarts = 2
INVARIANTS
  WatchOK
  OneLoop
  AlertedOnce
PROPERTIES
  CriticalHeard
  StopEnds
