SPECIFICATION FairSpec
CONSTANTS
  N = 4
  Graphs <- SomeGraphs
  Threads = {t1, t2}
  NeighborRounds = 2
INVARIANTS Inv Correct SkipIsSafe
PROPERTIES RefinesMerging Termination
CHECK_DEADLOCK FALSE
