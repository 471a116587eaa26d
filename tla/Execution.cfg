SPECIFICATION Spec
CONSTANTS
  Length = 2
  MaxQueries = 3
INVARIANTS
  AllOrNothing
  SuccessIsDurable
  ErrorIsTruthful
  SessionClean
  TransactionFailureTold
