SPECIFICATION Spec
CONSTANTS
  N = 4
  SemSize = 2
  QSize = 1
  c1 = c1
  c2 = c2
  Consumers <- TwoConsumers
  Outcomes <- NoFalsePills
INVARIANT EveryResultPut
