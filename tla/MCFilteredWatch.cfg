CONSTANTS
  k1 = k1
  Key = {k1}
  Spec_ = {"a", "b", "c"}
  Selected = {"a", "b"}
  SeededGen = {0, 3}
  SentGen = {9}
  MaxWrites = 3
  Requests = {"all", "indexed", "unindexed"}
SPECIFICATION Spec
INVARIANTS HeldGenerationWasStored WatchConverges OneInFlight
PROPERTY GenerationCounts
CHECK_DEADLOCK FALSE
