\* One caller and the test, over two voters and a learner.
CONSTANTS
  c1 = c1   Gone = Gone  Free = Free
  ID = {1, 2, 3}
  Learner = {3}
  Size = {0, 2}
  Alarm = {{}}
  Caller = {c1}
  Method = {"Health", "MoveLeader", "Defragment"}
  MaxFaults = 2
  MaxQueued = 1
  MaxLog = 1
SPECIFICATION FairSpec
INVARIANT LeaderVotes
PROPERTY CallReturns
CHECK_DEADLOCK FALSE
