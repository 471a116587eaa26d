SPECIFICATION FairSpec
CONSTANTS
  Handles = {h1}
  Scripts = {s1}
  PoolSize = 1
  QueueCap = 2
  CallbackCap = 2
  CounterMod = 8
  MaxQueries = 3
  MaxBatch = 2
  MaxLives = 1
  MaxTokens = 1
  NoErrorHook = {}
  None = None
  Publics <- MCPublics
INVARIANTS
  CounterExact
  ExecutionOrder
PROPERTIES
  ImplementsLifecycle
  QueryLeaves
  CloseReturns
  UnloadEnds
