CONSTANTS
  Pair = {1}
  NManagers = 2
  Quiet = 3
  Timeout = 4
  quiescenceSlice = 1
  reorderWindow = 1
  visibilityLag = 1
  StopTimeout = 2
  MaxTime = 5
  MaxActs = 2
SPECIFICATION Spec
INVARIANT EnvStopsLast
PROPERTY QuietIsEarned
CHECK_DEADLOCK FALSE
