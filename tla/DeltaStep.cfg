SPECIFICATION Spec
CONSTANTS
  N = 4
  WGraphs <- SomeGraphs
  Threads = {t1, t2}
  Delta = 2
  BinSizeThreshold = 2
  MaxBin = 4
INVARIANTS Distances NoLostWork
PROPERTIES VoteIsFinal
CHECK_DEADLOCK FALSE
