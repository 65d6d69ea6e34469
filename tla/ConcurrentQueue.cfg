CONSTANTS
  c1 = c1
  c2 = c2
  ProducerList <- TwoProducers
  Explicit <- OneExplicit
  Consumers <- TwoConsumers
  FirstOffset <- Offsets
  NumBlocks = 3
  PoolSize = 1
  BLOCK_SIZE = 2
  IndexValues = 16
  EXPLICIT_INITIAL_INDEX_SIZE = 2
  IMPLICIT_INITIAL_INDEX_SIZE = 2
  Quota = 2
  MaxBulk = 3
  MaxOvercommit = 1
  Scenarios <- AllScenarios
SPECIFICATION Spec
CONSTRAINT CallsTakeTurns
INVARIANT ClaimsAreBacked EveryBlockHasOnePlace RefsAreCounted
PROPERTY ImplementsQueues
CHECK_DEADLOCK FALSE
