SPECIFICATION Spec
CONSTANTS
  N = 7
  WGraphs <- Fan
  Threads = {t1}
  Delta = 16
  BinSizeThreshold = 1000
  MaxBin = 2
INVARIANTS FrontierFits
CHECK_DEADLOCK FALSE
