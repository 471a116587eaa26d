SPECIFICATION Spec
CONSTANTS
  Objects = {o}
  Handles = {h1, h2}
  Scripts = {s1, s2}
  Queries = {q1, q2}
  KeyNames = {id, name}
  FloatNames = {score}
  None = None
SYMMETRY AddressSymmetry
INVARIANTS
  FitsWhenApplied
  RefersToLiving
