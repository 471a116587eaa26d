SPECIFICATION Spec
CONSTANTS
  Handles = {h1, h2}
  MaxHandleId = 2
  IdCount = 3
  ParameterLimit = 1
  Values = {v}
  Texts = {q}
  MaxQueries = 2
  QueueCapacity = 1
  None = None
INVARIANTS
  AsTold
  SentToMaker
