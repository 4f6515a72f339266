SPECIFICATION FairSpec
CONSTANTS
  N = 4
  SemSize = 2
  QSize = 2
  c1 = c1
  c2 = c2
  Consumers <- TwoConsumers
  Outcomes <- NoFalsePills
INVARIANTS
  TypeOK
  SemaphoreNeverWaits
  NoEarlyStop
  NothingLeftBehind
  AllPutUnlessBlocked
  PutAtMostTwice
PROPERTIES
  Termination
  ImplementsContract
