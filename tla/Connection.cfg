SPECIFICATION FairSpec
CONSTANTS
  QueueCap = 2
  MaxCalls = 3
  Charsets = {"latin1", "utf8mb4"}
INVARIANTS
  ObjectThere
  NoSessionLeaked
  ReconnectRestores
  CharsetKept
PROPERTIES
  PostReturns
