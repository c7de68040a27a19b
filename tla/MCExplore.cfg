\* Two actors over four states; three workers, every way three items can fail.
SPECIFICATION Either
CONSTANTS
  State = {1, 2, 3, 4}
  Actor = {1, 2}
  MoveLists <- MoveChoice
  Initials <- TwoRoots
  Bads = {{3, 4}}
  Goals = {{3}}
  Allowed = {1}
  StateBounds = {1, 3, 4}
  DepthBounds = {0, 1}
  Chunks = {1, 2}
  w1 = w1  w2 = w2  w3 = w3
  Worker = {w1, w2, w3}
  N = 3
INVARIANTS UntruncatedIsComplete OrderIsSequential ShallowestViolation TrapsAreReal TracesAreShortest CalledOnce LowestFailureReported
PROPERTY Terminates
