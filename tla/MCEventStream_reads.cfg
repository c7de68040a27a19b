\* A test reading the stream; goroutines run promptly.
CONSTANTS
  k1 = k1  k2 = k2  o1 = o1  o2 = o2  d1 = d1  d2 = d2
  Absent = Absent
  KindOf <- OnePerKind
  Kinds <- TwoKinds
  Obj = {o1, o2}
  Doc = {d1}
  reorderWindow = 1
  RawCap = 2
  OutCap = 3
  Reads = {"next", "drain"}
  Timeout = 1
  Faults = {"closed", "error", "bookmark"}
  Prompt = TRUE
  MaxEvents = 2
  MaxReads = 1
SPECIFICATION Spec
INVARIANTS SilenceIsReal LossIsLoud
CHECK_DEADLOCK FALSE
