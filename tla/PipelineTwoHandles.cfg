SPECIFICATION Spec
CONSTANTS
  Handles = {h1, h2}
  Scripts = {s1}
  PoolSize = 0
  QueueCap = 2
  CallbackCap = 2
  CounterMod = 4
  MaxQueries = 3
  MaxBatch = 2
  MaxLives = 2
  MaxTokens = 2
  NoErrorHook = {s1}
  None = None
  Publics <- MCPublics
SYMMETRY HandleSymmetry
INVARIANTS
  NoDanglingHandle
  NoOrphanWorker
  OneHolder
  CallbackOrder
PROPERTIES
  CallbackValid
  NoCallbackLost
