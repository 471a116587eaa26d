SPECIFICATION Spec
CONSTANTS
  Handles = {h1, h2}
  Results = {r1, r2, r3, r4}
  MaxId = 3
  None = None
SYMMETRY AddressSymmetry
INVARIANTS
  CacheReadable
  SoleOwner
PROPERTIES
  NothingLeaked
  SavedIdsStable
