\* Two kinds, nobody reading, any scheduling.
CONSTANTS
  k1 = k1  k2 = k2  o1 = o1  o2 = o2  d1 = d1  d2 = d2
  Absent = Absent
  KindOf <- OnePerKind
  Kinds <- TwoKinds
  Obj = {o1, o2}
  Doc = {d1}
  reorderWindow = 1
  RawCap = 1
  OutCap = 2
  Reads = {}
  Timeout = 1
  Faults = {}
  Prompt = FALSE
  MaxEvents = 3
  MaxReads = 0
SPECIFICATION Spec
INVARIANTS DiffsAgainstPredecessor OvertakesOnlyTheUnseen ShutdownNeverStuck
CHECK_DEADLOCK FALSE
