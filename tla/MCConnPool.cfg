SPECIFICATION Spec
CONSTANTS
  c1 = c1
  c2 = c2
  Clients <- TwoClients
  PoolSize = 2
  MaxQueries = 2
  Work <- AllWork
INVARIANTS
  PoolExact
  GenerationHoldsNothing
  StallNeedsFullPool
PROPERTY
  EveryRequestEnds
