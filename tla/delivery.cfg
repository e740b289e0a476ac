SPECIFICATION Delivery
CONSTANTS
  Platforms = {p1, p2}
  Workers = {w1, w2}
  MaxUploads = 2
  MaxCopies = 2
  MaxReleases = 1
  MaxArtifacts = 2
  MaxKeys = 2
  LinkLife = 2
SYMMETRY Interchangeable
INVARIANTS ShippedVerifies PeriodsAreEnforced
PROPERTY ServedIsFrozen
CHECK_DEADLOCK FALSE
