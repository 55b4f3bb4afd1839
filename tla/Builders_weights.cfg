SPECIFICATION MCSpec
CONSTANTS
  Parts = {"reorder"}
  N = 3
  M = 4
  L = 5
  Inputs <- Lists
  Kinds = {"directed", "symmetrized", "local"}
  KeepSelf = {TRUE, FALSE}
  BlockSize = 2
  Threads = {0, 1}
  Reorderings = {1}
  ReorderingGraphs <- WeightedGraphs
  SizeValues = 32
  IdLimit = 8
  RelabelGraphs <- RelabelledGraphs
  NumTrials = 2
  Iters = {1, 2}
  Streams <- SomeStreams
  MaxScore = 2
  K = 2
  Segments <- SomeSegments
  Runs = 1
  Reorders = 1
  Programs = {"bfs"}
  Options = {"f"}
  Length = 1
INVARIANTS WeightsKept
