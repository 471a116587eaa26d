SPECIFICATION FairSpec
CONSTANTS
  Workers = {w}
  Main = main
  QueueCapacity = 2
  MaxMessages = 2
  MaxSwitches = 3
INVARIANTS
  DestroyedLast
  AcceptedIsKept
  RowsInOrder
  TextKept
PROPERTIES
  UnloadReturns
