SPECIFICATION MCFairSpec
CONSTANTS
  Parts = {"bfs", "sssp", "bc"}
  N = 6
  Graphs <- ChosenGraphs
  Alphas = {1, 3, 6}
  Betas = {1, 7}
  WordBits = 2
  ChunkSize = 2
  BufferSize = 1
  Threads = {t1, t2}
  DeltaN = 4
  WGraphs <- Ladders
  Delta = 2
  BinSizeThreshold = 2
  MaxBin = 4
  BrandesN = 5
  BrandesGraphs <- SmallGraphs
  NumIters = 2
INVARIANTS TypeOK TreeVerified LevelsAreExact ScoresExact
PROPERTIES RefinesLevels Terminates
CHECK_DEADLOCK FALSE
