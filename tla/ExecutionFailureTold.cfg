SPECIFICATION Spec
CONSTANTS
  Length = 2
  MaxQueries = 2
INVARIANTS
  FailureTold
