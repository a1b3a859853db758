CONSTANTS
  c1 = c1
  c2 = c2
  w1 = w1
  w2 = w2
  NoThread = NoThread
  Callers = {c1, c2}
  Workers = {w1, w2}
  Counts = {2}
  GenMod = 2
SPECIFICATION FairSpec
INVARIANTS
  ClaimsAreLive
  ReturnsComplete
  NoSelfWait
  IInv
PROPERTIES
  PostedJobEnds
  ImplementsParallelJob
  DestructorEnds
CHECK_DEADLOCK FALSE
