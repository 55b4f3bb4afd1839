SPECIFICATION FairSpec
CONSTANTS
  N = 4
  Graphs <- SomeGraphs
  Threads = {t1, t2}
INVARIANTS Inv Correct HooksCount
PROPERTIES Termination
CHECK_DEADLOCK FALSE
