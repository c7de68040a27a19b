\* Two owners, listed before and after their dependent.
CONSTANTS
  p = p  q = q  d = d  Gone = Gone
  WatchedKinds <- EitherSide
  Owner = {p, q}
  Dependent = {d}
  MaxInc = 2
  MaxDisturbances = 4
  MaxFaults = 1
  Retries = 2
SPECIFICATION FairSpec
PROPERTIES LiveOwnerKeepsDependent ReleasedOwnerUnreferenced OrphansKept DanglingCollected DeletionCompletes
